---- MODULE Spec2Model ----
(***************************************************************************)
(* Model of fastevo-uploader: UploadManager.uploadContent (the retry loop, *)
(* the progress emission and the thumbnail phase) as a state machine.      *)
(* One uploadContent call runs on one UploadManager; the transport (XHR),  *)
(* the caller-supplied callbacks and the ThumbnailGenerator are the        *)
(* environment and are nondeterministic.                                   *)
(* A second specification, GenSpec, models one ThumbnailGenerator instance *)
(* on which preloadFFmpeg and generateThumbnails operations interleave:    *)
(* the single-flight loadFFmpeg, the choice of strategy, the frame loops   *)
(* and the files of the engine's virtual filesystem.  FFmpeg, the <video>  *)
(* element and the canvas are the environment.                             *)
(***************************************************************************)
EXTENDS Integers, Naturals, Sequences, FiniteSets, TLC

\* ------------------------------------------------------------------ bounds
\* largest configured maxRetries explored (the default, 3, is included)
MaxRetriesBound == 3
\* progress events passed on to request.onProgress over one uploadContent call
MaxTicks == 2
\* event.total of the multipart body, in bytes
TotalBytes == 2
\* frames a successful ThumbnailGenerator.generateThumbnails may return
MaxThumbnails == 1
\* exceptions the caller-supplied callbacks throw into one uploadContent call
MaxCallbackThrows == 1

\* operations (preloadFFmpeg / generateThumbnails calls) on one ThumbnailGenerator
MaxOps == 3
\* generateThumbnails operations whose engine strategies interleave
MaxInterleaved == 2
\* options.numSnapshots of a generateThumbnails call
NumSnapshots == 2

\* largest video duration handed to a snapshot scheduler (time units)
MaxSchedDuration == 12
\* largest snapshot count handed to a snapshot scheduler
MaxSchedSnapshots == 4
\* largest thumbnail interval handed to a snapshot scheduler (time units)
MaxSchedInterval == 3

\* largest file size below one unit handed to calculateTimeout (bytes)
MaxSmallFileBytes == 24
\* largest whole number of 64 KiB blocks handed to calculateTimeout next to
\* the sizes around the cap
MaxFileBlocks == 112

\* uploadComplete events the underlying uploader emits in one call
MaxCompleteReports == 1
\* progress, error, pause and resume events of the uploader forwarded in one call
MaxForwarded == 2

\* uploadContent calls on one event-emitting UploadManager
MaxUploads == 2
\* pauseUpload, resumeUpload and abortUpload calls on it
MaxControlCalls == 3

\* timestamps scheduled in one generateThumbnailsWithVideo run
MaxVideoFrames == 3

\* the longest side of a canvas handed to isCanvasMostlyBlack
MaxCanvasSide == 2000
\* samples counted in one isCanvasMostlyBlack call; a call that returns takes
\* fewer, and the count of one that does not stays at this number
MaxSampleCount == 128

\* --------------------------------------------------------- program constants
DefaultMaxRetries == 3
UPLOAD_PROGRESS_WEIGHT == 1

\* ------------------------------------------------------------- file types
\* File.type values, as character sequences so that startsWith is computed
VideoMp4 == <<"v","i","d","e","o","/","m","p","4">>
ImagePng == <<"i","m","a","g","e","/","p","n","g">>
AudioMpeg == <<"a","u","d","i","o","/","m","p","e","g">>
TextPlain == <<"t","e","x","t","/","p","l","a","i","n">>
VideoNoSlash == <<"v","i","d","e","o">>
FileTypes == {VideoMp4, ImagePng, AudioMpeg, TextPlain, VideoNoSlash}

VideoPrefix == <<"v","i","d","e","o","/">>
ImagePrefix == <<"i","m","a","g","e","/">>
AudioPrefix == <<"a","u","d","i","o","/">>

\* String.prototype.startsWith
StartsWith(s, prefix) ==
  /\ Len(s) >= Len(prefix)
  /\ SubSeq(s, 1, Len(prefix)) = prefix

\* mutant of UnsupportedFileType: text/ has been added to the accepted types
UnsupportedFileTypeAllowsText(type) ==
  /\ ~StartsWith(type, VideoPrefix)
  /\ ~StartsWith(type, ImagePrefix)
  /\ ~StartsWith(type, AudioPrefix)
  /\ ~StartsWith(type, <<"t","e","x","t","/">>)

\* the pre-check of uploadContent: the condition under which it throws
UnsupportedFileType(type) ==
  /\ ~StartsWith(type, VideoPrefix)
  /\ ~StartsWith(type, ImagePrefix)
  /\ ~StartsWith(type, AudioPrefix)

\* ------------------------------------------------------------ arithmetic
Min(a, b) == IF a <= b THEN a ELSE b

\* Math.round(n / d) for n >= 0, d > 0 (round half up)
RoundDiv(n, d) == (2 * n + d) \div (2 * d)

\* mutant of XhrPercentage: the share still to send instead of the share sent
XhrPercentageRemaining(loaded, total) == RoundDiv((total - loaded) * 100, total)

\* xhr.upload.onprogress: Math.round((event.loaded / event.total) * 100)
XhrPercentage(loaded, total) == RoundDiv(loaded * 100, total)

\* the progress callback handed to uploadToPresignedUrl:
\* parseInt(Math.min(totalProgress + uploadPercentage, 100).toFixed(0))
CombinedPercentage(tp, uploadPct) ==
  Min(tp + uploadPct * UPLOAD_PROGRESS_WEIGHT, 100)

RECURSIVE Pow2(_)
Pow2(n) == IF n = 0 THEN 1 ELSE 2 * Pow2(n - 1)

\* config.retryDelay default: Math.pow(2, attempt) * 1000
RetryDelay(attempt) == Pow2(attempt) * 1000

\* mutant of LoopCondition: off by one, one more pass of the loop
LoopConditionOffByOne(att, max) == att <= max

\* while (attempts < maxRetries)
LoopCondition(att, max) == att < max

\* mutant of RetryCondition: the last failure is retried as well
RetryConditionAlways(att, max) == att <= max

\* mutant of RetryCondition: the comparison is reversed
RetryConditionReversed(att, max) == att > max

\* catch branch: if (attempts < maxRetries) retry else give up
RetryCondition(att, max) == att < max

\* xhr.onload: xhr.status >= 200 && xhr.status < 300
HttpStatuses == {199, 200, 299, 300}
IsSuccessStatus(status) == status >= 200 /\ status < 300

\* ------------------------------------------------------------------ state
VARIABLES
  config,          \* this.config (maxRetries)
  request,         \* the UploadRequest of the call
  pc,              \* position of the uploadContent call
  attempts,        \* let attempts
  totalProgress,   \* let totalProgress
  thumbnails,      \* let thumbnails
  result,          \* settlement of the promise uploadContent returned
  progressLog,     \* calls of request.onProgress, in order
  thumbsCompleteLog, \* calls of request.onThumbnailsComplete, in order
  xhrLog,          \* uploadToPresignedUrl calls of this call and how each settled
  delayLog,        \* calls of config.retryDelay, in order
  genLog,          \* calls of thumbnailGenerator.generateThumbnails and how each settled
  lastLoaded,      \* event.loaded last passed on in the attempt in flight
  iter,            \* passes of the while loop started so far
  ticks,           \* progress events passed on to request.onProgress so far
  thrownAt         \* the calls of caller-supplied callbacks whose exception reached uploadContent

uploadVars == <<config, request, pc, attempts, totalProgress, thumbnails,
                result, progressLog, thumbsCompleteLog, xhrLog, delayLog,
                genLog, lastLoaded, iter, ticks, thrownAt>>

\* one ThumbnailGenerator instance
VARIABLES
  ffmpegLoading,   \* this.ffmpegLoading: 0 for null, else the index in loads of the promise
  ffmpegInstance,  \* this.ffmpegInstance is not null
  loads,           \* the promises loadFFmpeg created (one per FFmpeg.load() call), in order
  fs,              \* the engine's virtual filesystem: file name -> operation that wrote it, 0 if absent
  ops              \* the preloadFFmpeg / generateThumbnails calls on the instance

genVars == <<ffmpegLoading, ffmpegInstance, loads, fs, ops>>

\* calls of the functions that compute a value from their arguments alone
VARIABLES
  sched,           \* one call of a calculateSnapshotTimes: arguments and returned value
  timeoutCall      \* one call of UploadManager.calculateTimeout: arguments and returned value

\* the event-emitting UploadManager (one uploadContent call)
VARIABLES
  em               \* position of the call, its request, the runs of its uploadComplete handler, the events emitted, the settlement

\* the control calls on an event-emitting UploadManager, one call of
\* isCanvasMostlyBlack and one run of generateThumbnailsWithVideo on its
\* <video> element
VARIABLES
  control,         \* this.uploader, the uploaders created and the pause, resume and abort calls made
  blackCall,       \* one call of isCanvasMostlyBlack: the canvas, the loop variables, the returned value
  video            \* one generateThumbnailsWithVideo run: position, listeners, timer, seeks, captures

moreVars == <<control, blackCall, video>>

otherVars == <<sched, timeoutCall, em, moreVars>>

vars == <<uploadVars, genVars, otherVars>>

NoRequest == [file |-> <<>>, generateThumbnails |-> FALSE,
              onProgress |-> FALSE, onThumbnailsComplete |-> FALSE]

Requests == [file : FileTypes, generateThumbnails : BOOLEAN,
             onProgress : BOOLEAN, onThumbnailsComplete : BOOLEAN]

Pending == [kind |-> "pending", thumbnails |-> <<>>, error |-> "none"]
Resolved(th) == [kind |-> "resolved", thumbnails |-> th, error |-> "none"]
Rejected(err) == [kind |-> "rejected", thumbnails |-> <<>>, error |-> err]

\* mutant of ThumbnailsCatchResult: the thumbnail error is rethrown
ThumbnailsCatchRethrows == Rejected("thumbnail error")

\* catch branch of the thumbnail phase: return { thumbnails: [] }
ThumbnailsCatchResult == Resolved(<<>>)

\* what a call of a caller-supplied callback can do
CallbackOutcomes == {"returns", "throws"}

\* one onProgress payload (speedBps and timeRemaining are not modelled; the
\* file size is taken to be event.total), with the pass of the loop and the
\* place in uploadContent that emitted it
Progress(site, it, status, percentage, uploadedBytes) ==
  [status |-> status, percentage |-> percentage,
   uploadedBytes |-> uploadedBytes, iter |-> it, site |-> site]

\* if (request.onProgress) request.onProgress({...})
Emit(p) ==
  progressLog' = IF request.onProgress THEN Append(progressLog, p)
                 ELSE progressLog

\* the callback can only throw when it exists
Throws(outcome, supplied) ==
  supplied /\ outcome = "throws" /\ Len(thrownAt) < MaxCallbackThrows

\* ------------------------------------------------- ThumbnailGenerator: data
\* options.method
Methods == {"auto", "ffmpeg", "native"}

\* options.format: a supported one and one the engine strategy refuses
Formats == {"png", "gif"}

FormatSupported(format) == format = "png" \/ format = "jpg"

DefaultThumbnailInterval == 5

\* duration used by the engine strategy when getVideoDuration fails
DefaultDuration == 60

\* video.duration values: NumSnapshots + 1 of them, scheduling 0, 1, ... frames
Durations ==
  {DefaultThumbnailInterval - 2}
    \cup {DefaultThumbnailInterval * k + 2 : k \in 1..NumSnapshots}

\* mutant of CalculateSnapshotTimes: a timestamp equal to the duration is kept
CalculateSnapshotTimesInclusive(duration, numSnapshots, thumbnailInterval) ==
  LET candidates == [i \in 1..numSnapshots |-> thumbnailInterval * i]
      Before(time) == time <= duration
  IN  SelectSeq(candidates, Before)

\* calculateSnapshotTimes
CalculateSnapshotTimes(duration, numSnapshots, thumbnailInterval) ==
  LET candidates == [i \in 1..numSnapshots |-> thumbnailInterval * i]
      Before(time) == time < duration
  IN  SelectSeq(candidates, Before)

\* the videoFile argument: a Blob has no name, a File has one
VideoBlob == [hasName |-> FALSE, name |-> <<>>]
VideoWebm == [hasName |-> TRUE, name |-> <<"a", ".", "b", ".", "w", "e", "b", "m">>]
VideoFiles == {VideoBlob, VideoWebm}

\* String.prototype.includes for a one-character needle
Includes(str, ch) == \E i \in 1..Len(str) : str[i] = ch

\* String.prototype.lastIndexOf (0-based, -1 if absent)
LastIndexOf(str, ch) ==
  IF Includes(str, ch)
  THEN (CHOOSE i \in 1..Len(str) :
          /\ str[i] = ch
          /\ \A j \in (i + 1)..Len(str) : str[j] # ch) - 1
  ELSE -1

\* String.prototype.substring(start)
Substring(str, start) == SubSeq(str, start + 1, Len(str))

\* const fileExtension = ...
FileExtension(videoFile) ==
  IF videoFile.hasName /\ Includes(videoFile.name, ".")
  THEN Substring(videoFile.name, LastIndexOf(videoFile.name, "."))
  ELSE <<".", "m", "p", "4">>

\* const inputFileName = `input_video${fileExtension}`
InputFileName(videoFile) == <<"input_video">> \o FileExtension(videoFile)

\* const outputFileName = `thumbnail_${i}.${format}` (i counted from 0)
OutputFileName(i, format) ==
  <<"thumbnail_", <<"0", "1", "2", "3", "4">>[i + 1], ".", format>>

Ops == 1..MaxOps

FileNames ==
  {InputFileName(f) : f \in VideoFiles}
    \cup {OutputFileName(i, format) : i \in 0..(NumSnapshots - 1),
                                      format \in {"png", "jpg"}}

\* URL.createObjectURL(blob): one URL for each frame made
BlobUrl(method, time) == <<"blob:", method, time>>

\* a Thumbnail, as far as generateThumbnails looks at it: isBlack is "true",
\* "false" or "undefined" (the property is absent); black says whether the
\* picture itself is mostly black
NativeThumbnail(time, isBlack, duration) ==
  [timestamp |-> time, method |-> "native",
   isBlack |-> IF isBlack THEN "true" ELSE "false", black |-> isBlack,
   blobUrl |-> BlobUrl("native", time), videoDuration |-> duration]

\* thumbnails.push({ blobUrl, blob, arrayBuffer, timestamp, videoDuration, method })
FFmpegThumbnail(time, black, duration) ==
  [timestamp |-> time, method |-> "ffmpeg",
   isBlack |-> "undefined", black |-> black,
   blobUrl |-> BlobUrl("ffmpeg", time), videoDuration |-> duration]

\* JavaScript truthiness of thumb.isBlack
Truthy(isBlack) == isBlack = "true"

\* thumbnails.every((thumb) => thumb.isBlack)
EveryIsBlack(batch) == \A i \in 1..Len(batch) : Truthy(batch[i].isBlack)

\* the loop is left at the first frame that fails
AfterFrameFailureAbort(i, n) == n + 1

\* the catch inside a frame loop: go on with the next scheduled timestamp
AfterFrameFailure(i, n) == i + 1

\* the frame loop of generateThumbnailsWithVideo over the outcomes the
\* browser gives for each timestamp; k is the position in snapshotTimes
RECURSIVE NativeLoop(_, _, _, _)
NativeLoop(times, outcomes, k, acc) ==
  IF k > Len(times) THEN [acc EXCEPT !.k = k]
  ELSE IF outcomes[k] = "captureFailed"
       THEN NativeLoop(times, outcomes, AfterFrameFailure(k, Len(times)),
                       [acc EXCEPT !.extraction = Append(@, "captureFailed")])
       ELSE NativeLoop(times, outcomes, k + 1,
                       [acc EXCEPT
                          !.extraction = Append(@, "ok"),
                          !.batch = Append(@, NativeThumbnail(times[k],
                                                 outcomes[k] = "black",
                                                 acc.duration))])

FrameOutcomes == {"captureFailed", "black", "notBlack"}

\* one run of a strategy inside a generateThumbnails call: the place of
\* generateThumbnails it was called from ("primary": lines 47, 52, 60;
\* "allBlack": line 68; "catch": line 80), its scheduled timestamps, the
\* position k of its frame loop in them, how the extraction at each attempted
\* timestamp went, the frames pushed and whether a deleteFile call failed;
\* the duration it went on with (0 before it has one) and whether its
\* getVideoDuration call rejected
StrategyRun(strategy, site) ==
  [strategy |-> strategy, site |-> site, outcome |-> "running",
   times |-> <<>>, k |-> 1, extraction |-> <<>>, batch |-> <<>>,
   deleteFailed |-> FALSE, duration |-> 0, durationFailed |-> FALSE]

IdleOp ==
  [kind |-> "idle", method |-> "none", format |-> "none", file |-> VideoBlob,
   duration |-> 0, pc |-> "idle", awaiting |-> 0, runs |-> <<>>,
   settled |-> "pending", value |-> <<>>, loaded |-> "none"]

\* a fresh ThumbnailGenerator with no call made on it
GenIdle ==
  /\ ffmpegLoading = 0
  /\ ffmpegInstance = FALSE
  /\ loads = <<>>
  /\ fs = [name \in FileNames |-> 0]
  /\ ops = [o \in Ops |-> IdleOp]

\* a JavaScript number as far as the schedulers produce one: a whole number,
\* or what a division by zero gives
Number(n) == [kind |-> "number", value |-> n]
NotANumber == [kind |-> "NaN", value |-> 0]
PlusInfinity == [kind |-> "Infinity", value |-> 0]
MinusInfinity == [kind |-> "-Infinity", value |-> 0]

\* Math.floor(a / b) for whole a and b: the quotient rounded down; a division
\* by zero throws nothing and gives NaN (0 / 0), Infinity or -Infinity
FloorOfQuotient(a, b) ==
  IF b = 0
  THEN IF a = 0 THEN NotANumber
       ELSE IF a > 0 THEN PlusInfinity ELSE MinusInfinity
  ELSE IF b > 0 THEN Number(a \div b) ELSE Number((0 - a) \div (0 - b))

\* calculateSnapshotTimes of modules/thumbnail/index.ts (even spacing).
\* Durations and intervals are whole numbers of one time unit: the function
\* only multiplies them, compares them and rounds their quotient down.
\* division records a division by zero made on the way
ThumbnailModuleCalculateSnapshotTimes(duration, numSnapshots, thumbnailInterval) ==
  LET totalFrames == FloorOfQuotient(duration, thumbnailInterval).value + 1
      posterCount == Min(totalFrames, numSnapshots)
      step == FloorOfQuotient(totalFrames, posterCount)
  IN  [times |-> [i \in 1..posterCount |->
                    (i - 1) * step.value * thumbnailInterval],
       division |-> IF posterCount = 0 THEN "byZero" ELSE "defined"]

\* Body of a value that is worked out first, once: a const of the program
Given(value, Body(_)) == CHOOSE r \in {Body(v) : v \in {value}} : TRUE

\* ---- exact fractions n / d in lowest terms, d > 0: byte counts, decimal
\* literals and the arithmetic of the stated formula
RECURSIVE Gcd(_, _)
Gcd(a, b) == IF b = 0 THEN a ELSE Gcd(b, a % b)

Abs(n) == IF n < 0 THEN 0 - n ELSE n

Rat(n, d) ==
  LET g == Gcd(Abs(n), d)
  IN  [num |-> n \div g, den |-> d \div g]

\* x * y, reduced crosswise before multiplying
RatMul(x, y) ==
  LET g1 == Gcd(Abs(x.num), y.den)
      g2 == Gcd(Abs(y.num), x.den)
  IN  Rat((x.num \div g1) * (y.num \div g2),
          (x.den \div g2) * (y.den \div g1))

\* x / y for y > 0
RatDiv(x, y) == RatMul(x, [num |-> y.den, den |-> y.num])

\* x + y over the least common denominator
RatAdd(x, y) ==
  LET l == (x.den \div Gcd(x.den, y.den)) * y.den
  IN  Rat(x.num * (l \div x.den) + y.num * (l \div y.den), l)

\* Math.ceil
RatCeil(x) == 0 - ((0 - x.num) \div x.den)

\* byte counts are written in units of 1024 bytes, so that sizes beyond
\* 2^31 bytes can be written: calculateTimeout uses the file size and
\* minSpeedBps only in their quotient
ByteUnit == 1024
Bytes(n) == Rat(n, ByteUnit)
KiB(n) == Rat(n, 1)

\* the constructor's defaults for the timeout: minSpeedBps 1 * 1024 * 1024,
\* bufferPercentage 0.2, maxTimeout 2 * 60 * 60 * 1000
DefaultUploadConfig ==
  [minSpeedBps |-> KiB(1024), bufferPercentage |-> Rat(2, 10),
   maxTimeout |-> 2 * 60 * 60 * 1000]

\* ---- JavaScript numbers of calculateTimeout: IEEE 754 doubles.  A double is
\* m * 2^e with the whole number m below 2^53; every operation gives the
\* exact result rounded to the nearest double, ties to the even one.  A whole
\* number of any size is written as its digits in base 2^14, lowest first,
\* with no zero digit at the high end (0 is the empty sequence)
LimbBits == 14
Base == 16384

MaxOf(S) == CHOOSE x \in S : \A y \in S : y <= x

\* without the zero digits at the high end
Strip(a) ==
  SubSeq(a, 1, MaxOf({0} \cup {i \in 1..Len(a) : a[i] # 0}))

Limb(a, i) == IF i \in 1..Len(a) THEN a[i] ELSE 0

Zeros(k) == [i \in 1..k |-> 0]

\* a whole number below 2^31
NatOfInt(n) == Strip(<<n % Base, (n \div Base) % Base, n \div (Base * Base)>>)

\* a whole number as an integer of the model; from 2^31 on it is written
\* 2^31 - 1 (calculateTimeout only compares such a value with maxTimeout)
IntOfNat(a) ==
  IF Len(a) > 3 \/ Limb(a, 3) >= 8 THEN 2147483647
  ELSE Limb(a, 1) + Base * Limb(a, 2) + Base * Base * Limb(a, 3)

RECURSIVE NatAddFrom(_, _, _, _)
NatAddFrom(a, b, i, carry) ==
  IF i > Len(a) /\ i > Len(b)
  THEN IF carry = 0 THEN <<>> ELSE <<carry>>
  ELSE LET sum == Limb(a, i) + Limb(b, i) + carry
       IN  <<sum % Base>> \o NatAddFrom(a, b, i + 1, sum \div Base)

NatAdd(a, b) == Strip(NatAddFrom(a, b, 1, 0))

\* a - b for a >= b
RECURSIVE NatSubFrom(_, _, _, _)
NatSubFrom(a, b, i, borrow) ==
  IF i > Len(a) THEN <<>>
  ELSE LET diff == Limb(a, i) - Limb(b, i) - borrow
       IN  <<diff % Base>> \o NatSubFrom(a, b, i + 1, IF diff < 0 THEN 1 ELSE 0)

NatSub(a, b) == Strip(NatSubFrom(a, b, 1, 0))

NatGeq(a, b) ==
  LET differ == {i \in 1..(Len(a) + Len(b)) : Limb(a, i) # Limb(b, i)}
  IN  differ = {} \/ Limb(a, MaxOf(differ)) > Limb(b, MaxOf(differ))

\* the sum of the digit products a[i] * b[k + 1 - i] that fall in column k
RECURSIVE ColumnFrom(_, _, _, _)
ColumnFrom(a, b, k, i) ==
  IF i > Len(a) THEN 0
  ELSE Limb(a, i) * Limb(b, k + 1 - i) + ColumnFrom(a, b, k, i + 1)

\* the columns carried over into digits
RECURSIVE CarryFrom(_, _, _)
CarryFrom(columns, k, carry) ==
  IF k > Len(columns)
  THEN IF carry = 0 THEN <<>>
       ELSE <<carry % Base>> \o CarryFrom(columns, k, carry \div Base)
  ELSE LET sum == columns[k] + carry
       IN  <<sum % Base>> \o CarryFrom(columns, k + 1, sum \div Base)

NatMul(a, b) ==
  Strip(CarryFrom([k \in 1..(Len(a) + Len(b)) |-> ColumnFrom(a, b, k, 1)],
                  1, 0))

\* a * 2^s
ShiftLeft(a, s) ==
  Strip(Zeros(s \div LimbBits) \o NatMul(a, <<Pow2(s % LimbBits)>>))

\* floor(a / 2^s)
ShiftRight(a, s) ==
  LET whole == SubSeq(a, s \div LimbBits + 1, Len(a))
      r == s % LimbBits
  IN  Strip([i \in 1..Len(whole) |->
               whole[i] \div Pow2(r)
                 + (Limb(whole, i + 1) % Pow2(r)) * Pow2(LimbBits - r)])

\* bit k of a, counted from 1 at the low end
BitAt(a, k) ==
  (Limb(a, (k - 1) \div LimbBits + 1) \div Pow2((k - 1) % LimbBits)) % 2

\* some bit among the s lowest bits of a is 1
LowBitsSet(a, s) == \E k \in 1..s : BitAt(a, k) = 1

\* the number of bits of a
BitLength(a) ==
  IF a = <<>> THEN 0
  ELSE LimbBits * (Len(a) - 1)
         + (CHOOSE k \in 1..LimbBits :
              Pow2(k - 1) <= a[Len(a)] /\ a[Len(a)] < Pow2(k))

\* d * q <= r
Fits(r, d, q) == NatGeq(r, NatMul(d, NatOfInt(q)))

\* the largest q below count with d * q * unit <= r
QuotientDigit(r, d, unit, count) ==
  CHOOSE q \in 0..(count - 1) :
    /\ Fits(r, d, q * unit)
    /\ (q + 1 < count => ~Fits(r, d, (q + 1) * unit))

\* the next bits of the quotient digit: q more taken into the quotient,
\* d * q off the remainder
DividePart(acc, d, unit, count) ==
  Given(QuotientDigit(acc.rem, d, unit, count) * unit, LAMBDA q :
    [quot |-> acc.quot + q,
     rem |-> NatSub(acc.rem, NatMul(d, NatOfInt(q)))])

\* long division by d # 0, one digit at a time: the digit limb brought down
\* onto the remainder rem < d of the digits above it; the quotient digit is
\* found in three parts of 5, 5 and 4 bits
DivideLimb(limb, d, rem) ==
  Given(DividePart([quot |-> 0, rem |-> Strip(<<limb>> \o rem)], d, 512, 32),
        LAMBDA high :
  Given(DividePart(high, d, 16, 32), LAMBDA middle :
    DividePart(middle, d, 1, 16)))

\* quotient and remainder of the digits of a from digit i up, divided by d
RECURSIVE DivideFrom(_, _, _)
DivideFrom(a, d, i) ==
  IF i > Len(a) THEN [quot |-> <<>>, rem |-> <<>>]
  ELSE Given(DivideFrom(a, d, i + 1), LAMBDA above :
       Given(DivideLimb(a[i], d, above.rem), LAMBDA here :
         [quot |-> <<here.quot>> \o above.quot, rem |-> here.rem]))

NatDivide(a, d) ==
  Given(DivideFrom(a, d, 1), LAMBDA r :
    [quot |-> Strip(r.quot), rem |-> r.rem])

MantissaBits == 53

\* the double nearest to m * 2^e, or to a little more than that when the
\* exact result has a non-zero part below the bits of m (sticky)
RoundToDouble(m, e, sticky) ==
  Given(BitLength(m) - MantissaBits, LAMBDA drop :
    IF drop <= 0 THEN [m |-> m, e |-> e]
    ELSE Given(ShiftRight(m, drop), LAMBDA kept :
           [m |-> IF /\ BitAt(m, drop) = 1
                     /\ \/ sticky
                        \/ LowBitsSet(m, drop - 1)
                        \/ BitAt(kept, 1) = 1
                  THEN NatAdd(kept, <<1>>)
                  ELSE kept,
            e |-> e + drop]))

\* x * y
DoubleMul(x, y) == RoundToDouble(NatMul(x.m, y.m), x.e + y.e, FALSE)

\* x + y
DoubleAdd(x, y) ==
  LET e == Min(x.e, y.e)
  IN  RoundToDouble(NatAdd(ShiftLeft(x.m, x.e - e), ShiftLeft(y.m, y.e - e)),
                    e, FALSE)

\* x / y for y # 0: the quotient of the significands is taken to two bits
\* more than a double keeps
DoubleDiv(x, y) ==
  IF x.m = <<>> THEN x
  ELSE Given(MaxOf({0, BitLength(y.m) + MantissaBits + 2 - BitLength(x.m)}),
             LAMBDA k :
       Given(NatDivide(ShiftLeft(x.m, k), y.m), LAMBDA d :
         RoundToDouble(d.quot, x.e - y.e - k, d.rem # <<>>)))

\* Math.ceil, as a whole number (below 2^31)
DoubleCeil(x) ==
  IF x.e >= 0 THEN IntOfNat(ShiftLeft(x.m, x.e))
  ELSE IntOfNat(ShiftRight(x.m, 0 - x.e))
         + (IF LowBitsSet(x.m, 0 - x.e) THEN 1 ELSE 0)

\* a whole number below 2^31 as a double
DoubleOfInt(n) == [m |-> NatOfInt(n), e |-> 0]

\* the exponent of a power of two
Log2(n) == CHOOSE k \in 0..30 : Pow2(k) = n

\* a byte count written in units of ByteUnit, as the double it is in the
\* program (byte counts are whole and below 2^53)
DoubleOfBytes(x) ==
  [m |-> NatOfInt(x.num), e |-> Log2(ByteUnit) - Log2(x.den)]

\* a decimal literal n / d: the double nearest to it
DoubleOfLiteral(x) == DoubleDiv(DoubleOfInt(x.num), DoubleOfInt(x.den))

\* mutant of CalculateTimeout: the cap is not applied
CalculateTimeoutUncapped(fileSize, cfg) ==
  Given(DoubleDiv(DoubleOfBytes(fileSize), DoubleOfBytes(cfg.minSpeedBps)),
        LAMBDA estimatedTimeSeconds :
  Given(DoubleMul(estimatedTimeSeconds, DoubleOfLiteral(cfg.bufferPercentage)),
        LAMBDA bufferTimeSeconds :
  Given(DoubleAdd(estimatedTimeSeconds, bufferTimeSeconds),
        LAMBDA totalTimeoutSeconds :
  Given(DoubleCeil(DoubleMul(totalTimeoutSeconds, DoubleOfInt(1000))),
        LAMBDA totalTimeoutMs :
    totalTimeoutMs))))

\* calculateTimeout(fileSize), with this.config as cfg
CalculateTimeout(fileSize, cfg) ==
  Given(DoubleDiv(DoubleOfBytes(fileSize), DoubleOfBytes(cfg.minSpeedBps)),
        LAMBDA estimatedTimeSeconds :
  Given(DoubleMul(estimatedTimeSeconds, DoubleOfLiteral(cfg.bufferPercentage)),
        LAMBDA bufferTimeSeconds :
  Given(DoubleAdd(estimatedTimeSeconds, bufferTimeSeconds),
        LAMBDA totalTimeoutSeconds :
  Given(DoubleCeil(DoubleMul(totalTimeoutSeconds, DoubleOfInt(1000))),
        LAMBDA totalTimeoutMs :
    IF totalTimeoutMs > cfg.maxTimeout THEN cfg.maxTimeout
    ELSE totalTimeoutMs))))

\* no call of a snapshot scheduler made
SchedIdle ==
  [policy |-> "none", duration |-> 0, numSnapshots |-> 0,
   thumbnailInterval |-> 1, returned |-> FALSE, times |-> <<>>,
   division |-> "none"]

\* no call of calculateTimeout made
TimeoutIdle ==
  [fileSize |-> Bytes(0), config |-> DefaultUploadConfig, returned |-> FALSE,
   ms |-> 0]

\* a fresh event-emitting UploadManager: no uploader, nothing emitted
EmIdle ==
  [pc |-> "idle", generateThumbnails |-> FALSE, handlers |-> <<>>,
   events |-> <<>>, forwarded |-> 0, result |-> Pending]

\* a fresh event-emitting UploadManager: this.uploader undefined (0), no
\* uploader created, no control call made
ControlIdle == [uploader |-> 0, uploaders |-> <<>>, calls |-> <<>>]

\* no call of isCanvasMostlyBlack made
BlackIdle ==
  [pc |-> "idle", width |-> 1, height |-> 1, pixels |-> "zero",
   threshold |-> 10, sampleWidth |-> Number(0), sampleHeight |-> Number(0),
   x |-> Number(0), y |-> Number(0), total |-> 0, count |-> 0,
   value |-> FALSE]

\* no generateThumbnailsWithVideo run started
VideoIdle ==
  [pc |-> "idle", n |-> 0, k |-> 0, listener |-> -1, timers |-> {},
   seeking |-> -1, queued |-> {}, encoding |-> {}, raster |-> <<>>,
   settled |-> <<>>, batch |-> <<>>, everyBlack |-> TRUE]

MoreIdle ==
  /\ control = ControlIdle
  /\ blackCall = BlackIdle
  /\ video = VideoIdle

OtherIdle ==
  /\ sched = SchedIdle
  /\ timeoutCall = TimeoutIdle
  /\ em = EmIdle
  /\ MoreIdle

\* constructor: defaults, overridden by the caller's partial config
Init ==
  /\ config \in [maxRetries : 0..MaxRetriesBound]
  /\ request = NoRequest
  /\ pc = "idle"
  /\ attempts = 0
  /\ totalProgress = 0
  /\ thumbnails = <<>>
  /\ result = Pending
  /\ progressLog = <<>>
  /\ thumbsCompleteLog = <<>>
  /\ xhrLog = <<>>
  /\ delayLog = <<>>
  /\ genLog = <<>>
  /\ lastLoaded = 0
  /\ iter = 0
  /\ ticks = 0
  /\ thrownAt = <<>>
  /\ GenIdle
  /\ OtherIdle

\* uploadContent up to the retry loop: the type pre-check
UploadContent ==
  /\ pc = "idle"
  /\ \E req \in Requests :
       /\ request' = req
       /\ IF UnsupportedFileType(req.file)
          THEN /\ pc' = "rejected"
               /\ result' = Rejected("UploadError: Unsupported file type")
          ELSE /\ pc' = "loop"
               /\ result' = result
  /\ attempts' = 0
  /\ totalProgress' = 0
  /\ thumbnails' = <<>>
  /\ UNCHANGED <<config, progressLog, thumbsCompleteLog, xhrLog, delayLog,
                 genLog, lastLoaded, iter, ticks, thrownAt>>
  /\ UNCHANGED <<genVars, otherVars>>

\* one pass of the while loop up to the await: the "uploading" notification
\* and xhr.send
AttemptStart ==
  /\ pc = "loop"
  /\ LoopCondition(attempts, config.maxRetries)
  /\ iter' = iter + 1
  /\ Emit(Progress("attemptStart", iter', "uploading", totalProgress, 0))
  /\ \E outcome \in CallbackOutcomes :
       IF Throws(outcome, request.onProgress)
       THEN /\ pc' = "catch"
            /\ thrownAt' = Append(thrownAt, "attemptStart")
            /\ xhrLog' = xhrLog
       ELSE /\ outcome = "returns"
            /\ pc' = "xhr"
            /\ thrownAt' = thrownAt
            /\ xhrLog' = Append(xhrLog, [iter |-> iter + 1,
                                          outcome |-> "pending",
                                          monotone |-> TRUE])
  /\ lastLoaded' = 0
  /\ UNCHANGED <<config, request, attempts, totalProgress, thumbnails, result,
                 thumbsCompleteLog, delayLog, genLog, ticks>>
  /\ UNCHANGED <<genVars, otherVars>>

\* the while condition is false: fall through to the code after the loop
LoopExit ==
  /\ pc = "loop"
  /\ ~LoopCondition(attempts, config.maxRetries)
  /\ pc' = "afterUpload"
  /\ UNCHANGED <<config, request, attempts, totalProgress, thumbnails, result,
                 progressLog, thumbsCompleteLog, xhrLog, delayLog, genLog,
                 lastLoaded, iter, ticks, thrownAt>>
  /\ UNCHANGED <<genVars, otherVars>>

\* mutant of Settle: the rejection is not the end of the transfer, which
\* stays in flight while the loop goes on
SettleLeavesInFlight(log, outcome) ==
  log

\* the promise of the latest uploadToPresignedUrl call settles
Settle(log, outcome) ==
  [log EXCEPT ![Len(log)].outcome = outcome]

\* xhr.upload.onprogress and the progress callback of uploadContent.  The
\* handler acts only on a lengthComputable event and when request.onProgress
\* exists; otherwise it changes nothing.  Whether request.onProgress returns
\* or throws makes no difference here: an exception ends this event handler
\* and never reaches uploadContent.
XhrProgress ==
  /\ pc = "xhr"
  /\ \E lengthComputable \in BOOLEAN :
       IF lengthComputable /\ request.onProgress
       THEN \E loaded \in 0..TotalBytes :
              /\ ticks < MaxTicks
              /\ ticks' = ticks + 1
              /\ progressLog' =
                   Append(progressLog,
                          Progress("xhrProgress", iter, "uploading",
                                   CombinedPercentage(totalProgress,
                                     XhrPercentage(loaded, TotalBytes)),
                                   loaded))
              /\ lastLoaded' = loaded
              /\ xhrLog' = [xhrLog EXCEPT ![Len(xhrLog)].monotone =
                                            @ /\ loaded >= lastLoaded]
       ELSE UNCHANGED <<ticks, progressLog, lastLoaded, xhrLog>>
  /\ UNCHANGED <<config, request, pc, attempts, totalProgress, thumbnails,
                 result, thumbsCompleteLog, delayLog, genLog, iter,
                 thrownAt>>
  /\ UNCHANGED <<genVars, otherVars>>

\* xhr.onload, and on a 2xx status the code after the await: totalProgress,
\* the "uploadCompleted" notification and break
XhrLoad ==
  /\ pc = "xhr"
  /\ \E status \in HttpStatuses, outcome \in CallbackOutcomes :
       IF IsSuccessStatus(status)
       THEN /\ xhrLog' = Settle(xhrLog, "ok")
            /\ totalProgress' = totalProgress + UPLOAD_PROGRESS_WEIGHT * 100
            /\ progressLog' =
                 IF request.onProgress
                 THEN Append(progressLog,
                             Progress("uploadCompleted", iter, "uploadCompleted",
                                      Min(totalProgress', 100), TotalBytes))
                 ELSE progressLog
            /\ IF Throws(outcome, request.onProgress)
               THEN pc' = "catch" /\ thrownAt' = Append(thrownAt, "uploadCompleted")
               ELSE /\ outcome = "returns"
                    /\ pc' = "afterUpload"
                    /\ thrownAt' = thrownAt
       ELSE /\ outcome = "returns"
            /\ xhrLog' = Settle(xhrLog, "failed")
            /\ pc' = "catch"
            /\ UNCHANGED <<totalProgress, progressLog, thrownAt>>
  /\ UNCHANGED <<config, request, attempts, thumbnails, result,
                 thumbsCompleteLog, delayLog, genLog, lastLoaded, iter, ticks>>
  /\ UNCHANGED <<genVars, otherVars>>

\* xhr.onerror
XhrError ==
  /\ pc = "xhr"
  /\ xhrLog' = Settle(xhrLog, "failed")
  /\ pc' = "catch"
  /\ UNCHANGED <<config, request, attempts, totalProgress, thumbnails, result,
                 progressLog, thumbsCompleteLog, delayLog, genLog, lastLoaded,
                 iter, ticks, thrownAt>>
  /\ UNCHANGED <<genVars, otherVars>>

\* xhr.ontimeout
XhrTimeout ==
  /\ pc = "xhr"
  /\ xhrLog' = Settle(xhrLog, "failed")
  /\ pc' = "catch"
  /\ UNCHANGED <<config, request, attempts, totalProgress, thumbnails, result,
                 progressLog, thumbsCompleteLog, delayLog, genLog, lastLoaded,
                 iter, ticks, thrownAt>>
  /\ UNCHANGED <<genVars, otherVars>>

\* the catch branch of the retry loop
Catch ==
  /\ pc = "catch"
  /\ attempts' = attempts + 1
  /\ \E outcome \in CallbackOutcomes :
       IF RetryCondition(attempts', config.maxRetries)
       THEN /\ Emit(Progress("retry", iter, "uploading", totalProgress, 0))
            /\ IF Throws(outcome, request.onProgress)
               THEN /\ pc' = "rejected"
                    /\ result' = Rejected("callback error")
                    /\ thrownAt' = Append(thrownAt, "retry")
                    /\ delayLog' = delayLog
               ELSE /\ outcome = "returns"
                    /\ pc' = "delay"
                    /\ delayLog' = Append(delayLog,
                                          [attempt |-> attempts',
                                           ms |-> RetryDelay(attempts'),
                                           iter |-> iter])
                    /\ UNCHANGED <<result, thrownAt>>
       ELSE /\ Emit(Progress("giveUp", iter, "errorUploading", totalProgress, 0))
            /\ pc' = "rejected"
            /\ delayLog' = delayLog
            /\ IF Throws(outcome, request.onProgress)
               THEN /\ result' = Rejected("callback error")
                    /\ thrownAt' = Append(thrownAt, "giveUp")
               ELSE /\ outcome = "returns"
                    /\ result' = Rejected("UploadError: Failed to upload content after multiple attempts")
                    /\ thrownAt' = thrownAt
  /\ UNCHANGED <<config, request, totalProgress, thumbnails,
                 thumbsCompleteLog, xhrLog, genLog, lastLoaded, iter, ticks>>
  /\ UNCHANGED <<genVars, otherVars>>

\* the timer of delay(attempts) fires
DelayElapsed ==
  /\ pc = "delay"
  /\ pc' = "loop"
  /\ UNCHANGED <<config, request, attempts, totalProgress, thumbnails, result,
                 progressLog, thumbsCompleteLog, xhrLog, delayLog, genLog,
                 lastLoaded, iter, ticks, thrownAt>>
  /\ UNCHANGED <<genVars, otherVars>>

\* after the loop: start the thumbnail phase or return
AfterUpload ==
  /\ pc = "afterUpload"
  /\ \E outcome \in CallbackOutcomes :
       IF request.generateThumbnails /\ StartsWith(request.file, VideoPrefix)
       THEN /\ Emit(Progress("thumbnailPhase", iter, "generatingThumbnails",
                          totalProgress, TotalBytes))
            /\ IF Throws(outcome, request.onProgress)
               THEN /\ pc' = "rejected"
                    /\ result' = Rejected("callback error")
                    /\ thrownAt' = Append(thrownAt, "thumbnailPhase")
                    /\ genLog' = genLog
               ELSE /\ outcome = "returns"
                    /\ pc' = "thumbs"
                    /\ genLog' = Append(genLog, [outcome |-> "pending"])
                    /\ UNCHANGED <<result, thrownAt>>
       ELSE /\ outcome = "returns"
            /\ pc' = "resolved"
            /\ result' = Resolved(thumbnails)
            /\ UNCHANGED <<progressLog, genLog, thrownAt>>
  /\ UNCHANGED <<config, request, attempts, totalProgress, thumbnails,
                 thumbsCompleteLog, xhrLog, delayLog, lastLoaded, iter, ticks>>
  /\ UNCHANGED <<genVars, otherVars>>

\* the callback is never invoked
InvokeThumbnailsCompleteSkipped(log, supplied, list) == log

\* if (onThumbnailsComplete) { onThumbnailsComplete(thumbnails); }
InvokeThumbnailsComplete(log, supplied, list) ==
  IF supplied THEN Append(log, list) ELSE log

\* thumbnailGenerator.generateThumbnails resolves with n frames; the rest of
\* the inner try block
ThumbnailsResolve ==
  /\ pc = "thumbs"
  /\ \E n \in 0..MaxThumbnails, o1 \in CallbackOutcomes, o2 \in CallbackOutcomes :
       /\ genLog' = Settle(genLog, "resolved")
       /\ thumbnails' = [i \in 1..n |-> i]
       /\ totalProgress' = 100
       /\ Emit(Progress("thumbnailsDone", iter, "thumbnailsGenerated",
                       totalProgress', TotalBytes))
       /\ IF Throws(o1, request.onProgress)
          THEN /\ o2 = "returns"
               /\ pc' = "thumbCatch"
               /\ thrownAt' = Append(thrownAt, "thumbnailsDone")
               /\ UNCHANGED <<thumbsCompleteLog, result>>
          ELSE /\ o1 = "returns"
               /\ thumbsCompleteLog' =
                    InvokeThumbnailsComplete(thumbsCompleteLog,
                                             request.onThumbnailsComplete,
                                             thumbnails')
               /\ IF Throws(o2, request.onThumbnailsComplete)
                  THEN /\ pc' = "thumbCatch"
                       /\ thrownAt' = Append(thrownAt, "thumbnailsComplete")
                       /\ result' = result
                  ELSE /\ o2 = "returns"
                       /\ pc' = "resolved"
                       /\ result' = Resolved(thumbnails')
                       /\ thrownAt' = thrownAt
  /\ UNCHANGED <<config, request, attempts, xhrLog, delayLog, lastLoaded,
                 iter, ticks>>
  /\ UNCHANGED <<genVars, otherVars>>

\* thumbnailGenerator.generateThumbnails rejects
ThumbnailsReject ==
  /\ pc = "thumbs"
  /\ pc' = "thumbCatch"
  /\ genLog' = Settle(genLog, "rejected")
  /\ UNCHANGED <<config, request, attempts, totalProgress, thumbnails, result,
                 progressLog, thumbsCompleteLog, xhrLog, delayLog,
                 lastLoaded, iter, ticks, thrownAt>>
  /\ UNCHANGED <<genVars, otherVars>>

\* the catch branch of the thumbnail phase
ThumbnailsCatch ==
  /\ pc = "thumbCatch"
  /\ Emit(Progress("thumbnailsCatch", iter, "errorGeneratingThumbnails",
                  totalProgress, TotalBytes))
  /\ \E outcome \in CallbackOutcomes :
       IF Throws(outcome, request.onProgress)
       THEN /\ pc' = "rejected"
            /\ result' = Rejected("callback error")
            /\ thrownAt' = Append(thrownAt, "thumbnailsCatch")
       ELSE /\ outcome = "returns"
            /\ result' = ThumbnailsCatchResult
            /\ pc' = result'.kind
            /\ thrownAt' = thrownAt
  /\ UNCHANGED <<config, request, attempts, totalProgress, thumbnails,
                 thumbsCompleteLog, xhrLog, delayLog, genLog, lastLoaded, iter,
                 ticks>>
  /\ UNCHANGED <<genVars, otherVars>>

Next ==
  \/ UploadContent
  \/ AttemptStart
  \/ LoopExit
  \/ XhrProgress
  \/ XhrLoad
  \/ XhrError
  \/ XhrTimeout
  \/ Catch
  \/ DelayElapsed
  \/ AfterUpload
  \/ ThumbnailsResolve
  \/ ThumbnailsReject
  \/ ThumbnailsCatch

Spec == Init /\ [][Next]_vars

\* --------------------------------------------- ThumbnailGenerator: actions
CurrentRun(op) == op.runs[Len(op.runs)]

WithRun(op, run) == [op EXCEPT !.runs[Len(op.runs)] = run]

\* a strategy is called from generateThumbnails
StartRun(op, strategy, site) ==
  [op EXCEPT !.runs = Append(@, StrategyRun(strategy, site)),
             !.pc = IF strategy = "ffmpeg" THEN "ffStart" ELSE "native"]

\* the promise generateThumbnails returned settles
Resolve(op, batch) ==
  [op EXCEPT !.pc = "done", !.settled = "resolved", !.value = batch]

Reject(op) == [op EXCEPT !.pc = "done", !.settled = "rejected"]

\* generateThumbnails after the strategy it awaits has returned its batch:
\* lines 47, 52, 64-73, 68, 80
AfterRunReturned(op) ==
  LET run == [CurrentRun(op) EXCEPT !.outcome = "returned"]
      op1 == WithRun(op, run)
  IN  IF run.site = "primary" /\ op.method = "auto" /\ EveryIsBlack(run.batch)
      THEN StartRun(op1, "native", "allBlack")
      ELSE Resolve(op1, run.batch)

\* generateThumbnails after the strategy it awaits has thrown: the catch
\* block encloses the three branches of the try and runs the native strategy;
\* what that run throws leaves generateThumbnails
AfterRunThrew(op) ==
  LET run == [CurrentRun(op) EXCEPT !.outcome = "threw"]
      op1 == WithRun(op, run)
  IN  IF run.site = "catch"
      THEN Reject(op1)
      ELSE StartRun(op1, "native", "catch")

\* every caller starts a load of its own
AwaitsPendingLoadNever(loading) == FALSE

\* if (this.ffmpegLoading) return this.ffmpegLoading;
AwaitsPendingLoad(loading) == loading # 0

\* settlement of the promise loadFFmpeg handed out: index -1 stands for the
\* instance returned at once (if (this.ffmpegInstance) return ...)
LoadState(p) == IF p = -1 THEN "fulfilled" ELSE loads[p]

\* loadFFmpeg up to its return; op is the caller with its other fields
\* already updated.  FFmpeg.load() may throw before it returns a promise: the
\* catch of the async block then runs first (both fields null) and the
\* assignment of the already rejected promise to ffmpegLoading after it.
LoadFFmpeg(o, op) ==
  IF AwaitsPendingLoad(ffmpegLoading)
  THEN /\ ops' = [ops EXCEPT ![o] = [op EXCEPT !.awaiting = ffmpegLoading]]
       /\ UNCHANGED <<ffmpegLoading, ffmpegInstance, loads>>
  ELSE IF ffmpegInstance
  THEN /\ ops' = [ops EXCEPT ![o] = [op EXCEPT !.awaiting = -1]]
       /\ UNCHANGED <<ffmpegLoading, ffmpegInstance, loads>>
  ELSE \E sync \in {"pending", "rejected"} :
         /\ loads' = Append(loads, sync)
         /\ ffmpegLoading' = Len(loads')
         /\ ffmpegInstance' = (sync = "pending")
         /\ ops' = [ops EXCEPT ![o] = [op EXCEPT !.awaiting = Len(loads')]]

\* operations are numbered in the order in which they are called
MayStart(o) ==
  /\ ops[o].kind = "idle"
  /\ o > 1 => ops[o - 1].kind # "idle"

\* preloadFFmpeg up to its await
PreloadFFmpeg(o) ==
  /\ MayStart(o)
  /\ LoadFFmpeg(o, [ops[o] EXCEPT !.kind = "preload", !.pc = "preAwait"])
  /\ UNCHANGED <<fs, uploadVars, otherVars>>

\* the catch rethrows
PreloadCatchRethrows(op) == Reject(op)

\* catch (err) { this.logger.warn(...); return false; }
PreloadCatch(op) ==
  [op EXCEPT !.pc = "done", !.settled = "resolved", !.loaded = "false"]

\* preloadFFmpeg after its await
PreloadSettles(o) ==
  /\ ops[o].pc = "preAwait"
  /\ LoadState(ops[o].awaiting) # "pending"
  /\ ops' = [ops EXCEPT ![o] =
       IF LoadState(ops[o].awaiting) = "fulfilled"
       THEN [ops[o] EXCEPT !.pc = "done", !.settled = "resolved",
                           !.loaded = "true"]
       ELSE PreloadCatch(ops[o])]
  /\ UNCHANGED <<ffmpegLoading, ffmpegInstance, loads, fs, uploadVars, otherVars>>

\* await this.ffmpegInstance.load() resolves and ffmpegInstance.loaded is true
LoadSucceeds ==
  /\ \E p \in 1..Len(loads) :
       /\ loads[p] = "pending"
       /\ loads' = [loads EXCEPT ![p] = "fulfilled"]
  /\ UNCHANGED <<ffmpegLoading, ffmpegInstance, fs, ops, uploadVars, otherVars>>

\* load() rejects, or resolves with ffmpegInstance.loaded false: the catch of
\* the async block
LoadFails ==
  /\ \E p \in 1..Len(loads) :
       /\ loads[p] = "pending"
       /\ loads' = [loads EXCEPT ![p] = "rejected"]
  /\ ffmpegLoading' = 0
  /\ ffmpegInstance' = FALSE
  /\ UNCHANGED <<fs, ops, uploadVars, otherVars>>

\* the arguments of a generateThumbnails call: the video (its file object
\* and its duration), options.method and options.format
GenerateInputs ==
  [method : Methods, format : Formats, file : VideoFiles, duration : Durations]

\* generateThumbnails up to the call of the first strategy, with arguments
\* from the given set
GenerateThumbnailsWith(o, inputs) ==
  /\ MayStart(o)
  /\ \E input \in inputs :
       ops' = [ops EXCEPT ![o] =
                 StartRun([ops[o] EXCEPT !.kind = "generate",
                                         !.method = input.method,
                                         !.format = input.format,
                                         !.file = input.file,
                                         !.duration = input.duration],
                          IF input.method = "native" THEN "native" ELSE "ffmpeg",
                          "primary")]
  /\ UNCHANGED <<ffmpegLoading, ffmpegInstance, loads, fs, uploadVars, otherVars>>

GenerateThumbnails(o) == GenerateThumbnailsWith(o, GenerateInputs)

\* generateThumbnailsWithFFmpeg: the format check and the call of loadFFmpeg
FFmpegBegin(o) ==
  /\ ops[o].pc = "ffStart"
  /\ IF FormatSupported(ops[o].format)
     THEN LoadFFmpeg(o, [ops[o] EXCEPT !.pc = "ffLoad"])
     ELSE /\ ops' = [ops EXCEPT ![o] = AfterRunThrew(ops[o])]
          /\ UNCHANGED <<ffmpegLoading, ffmpegInstance, loads>>
  /\ UNCHANGED <<fs, uploadVars, otherVars>>

\* const ffmpeg = await this.loadFFmpeg() settles
FFmpegLoaded(o) ==
  /\ ops[o].pc = "ffLoad"
  /\ LoadState(ops[o].awaiting) # "pending"
  /\ ops' = [ops EXCEPT ![o] =
       IF LoadState(ops[o].awaiting) = "fulfilled"
       THEN [ops[o] EXCEPT !.pc = "ffWrite"]
       ELSE AfterRunThrew(ops[o])]
  /\ UNCHANGED <<ffmpegLoading, ffmpegInstance, loads, fs, uploadVars, otherVars>>

\* the catch around getVideoDuration leaves the duration unset
FFmpegDurationUnset(measured, failed) == IF failed THEN 0 ELSE measured

\* try { duration = await this.getVideoDuration(videoFile) }
\* catch (err) { ...; duration = 60 }
FFmpegDuration(measured, failed) ==
  IF failed THEN DefaultDuration ELSE measured

\* the frame loop is over when k has passed the last scheduled timestamp
LoopPc(run) == IF run.k > Len(run.times) THEN "ffCleanup" ELSE "ffExec"

\* getVideoDuration (60 if it fails), calculateSnapshotTimes, fetchFile and
\* ffmpeg.writeFile(inputFileName, fileData)
FFmpegWriteInput(o) ==
  /\ ops[o].pc = "ffWrite"
  /\ \E failed \in BOOLEAN, written \in BOOLEAN :
       LET duration == FFmpegDuration(ops[o].duration, failed)
           run == [CurrentRun(ops[o]) EXCEPT
                     !.duration = duration,
                     !.durationFailed = failed,
                     !.times = CalculateSnapshotTimes(duration, NumSnapshots,
                                                      DefaultThumbnailInterval)]
           op1 == WithRun(ops[o], run)
       IN  IF written
           THEN /\ fs' = [fs EXCEPT ![InputFileName(ops[o].file)] = o]
                /\ ops' = [ops EXCEPT ![o] = [op1 EXCEPT !.pc = LoopPc(run)]]
           ELSE /\ fs' = fs
                /\ ops' = [ops EXCEPT ![o] = AfterRunThrew(op1)]
  /\ UNCHANGED <<ffmpegLoading, ffmpegInstance, loads, uploadVars, otherVars>>

\* the catch of the frame loop of generateThumbnailsWithFFmpeg
FrameFailed(op, how) ==
  LET run == CurrentRun(op)
      run1 == [run EXCEPT !.extraction = Append(@, how),
                          !.k = AfterFrameFailure(run.k, Len(run.times))]
  IN  [WithRun(op, run1) EXCEPT !.pc = LoopPc(run1)]

\* await ffmpeg.exec([...]) writes outputFileName, or throws
FFmpegExec(o) ==
  /\ ops[o].pc = "ffExec"
  /\ \E done \in BOOLEAN :
       IF done
       THEN /\ fs' = [fs EXCEPT ![OutputFileName(CurrentRun(ops[o]).k - 1,
                                                 ops[o].format)] = o]
            /\ ops' = [ops EXCEPT ![o] = [ops[o] EXCEPT !.pc = "ffRead"]]
       ELSE /\ fs' = fs
            /\ ops' = [ops EXCEPT ![o] = FrameFailed(ops[o], "execFailed")]
  /\ UNCHANGED <<ffmpegLoading, ffmpegInstance, loads, uploadVars, otherVars>>

\* await ffmpeg.readFile(outputFileName) and thumbnails.push({...}), or
\* readFile throws (it does when the file is no longer there)
FFmpegReadFile(o) ==
  /\ ops[o].pc = "ffRead"
  /\ LET run == CurrentRun(ops[o])
         name == OutputFileName(run.k - 1, ops[o].format)
     IN  \E read \in BOOLEAN, black \in BOOLEAN :
           IF read /\ fs[name] # 0
           THEN ops' = [ops EXCEPT ![o] =
                  [WithRun(ops[o],
                           [run EXCEPT
                              !.extraction = Append(@, "ok"),
                              !.batch = Append(@, FFmpegThumbnail(
                                                    run.times[run.k], black,
                                                    run.duration))])
                   EXCEPT !.pc = "ffDelete"]]
           ELSE /\ ~black
                /\ ops' = [ops EXCEPT ![o] = FrameFailed(ops[o], "readFailed")]
  /\ UNCHANGED <<ffmpegLoading, ffmpegInstance, loads, fs, uploadVars, otherVars>>

\* await ffmpeg.deleteFile(outputFileName) at the end of the try block of the
\* frame loop; when it throws the catch of the loop logs it
FFmpegDeleteOutput(o) ==
  /\ ops[o].pc = "ffDelete"
  /\ LET run == CurrentRun(ops[o])
         name == OutputFileName(run.k - 1, ops[o].format)
     IN  \E deleted \in BOOLEAN :
           IF deleted /\ fs[name] # 0
           THEN LET run1 == [run EXCEPT !.k = run.k + 1]
                IN  /\ fs' = [fs EXCEPT ![name] = 0]
                    /\ ops' = [ops EXCEPT ![o] =
                         [WithRun(ops[o], run1) EXCEPT !.pc = LoopPc(run1)]]
           ELSE LET run1 == [run EXCEPT
                               !.deleteFailed = TRUE,
                               !.k = AfterFrameFailure(run.k, Len(run.times))]
                IN  /\ fs' = fs
                    /\ ops' = [ops EXCEPT ![o] =
                         [WithRun(ops[o], run1) EXCEPT !.pc = LoopPc(run1)]]
  /\ UNCHANGED <<ffmpegLoading, ffmpegInstance, loads, uploadVars, otherVars>>

\* try { await ffmpeg.deleteFile(inputFileName) } catch { warn }; return thumbnails
FFmpegCleanup(o) ==
  /\ ops[o].pc = "ffCleanup"
  /\ LET run == CurrentRun(ops[o])
         name == InputFileName(ops[o].file)
     IN  \E deleted \in BOOLEAN :
           IF deleted /\ fs[name] # 0
           THEN /\ fs' = [fs EXCEPT ![name] = 0]
                /\ ops' = [ops EXCEPT ![o] = AfterRunReturned(ops[o])]
           ELSE /\ fs' = fs
                /\ ops' = [ops EXCEPT ![o] =
                     AfterRunReturned(
                       WithRun(ops[o], [run EXCEPT !.deleteFailed = TRUE]))]
  /\ UNCHANGED <<ffmpegLoading, ffmpegInstance, loads, uploadVars, otherVars>>

\* the batch is returned whatever its flags
NativeBatchRefusedNever(batch) == FALSE

\* if (thumbnails.every((thumb) => thumb.isBlack)) throw new CustomError(...)
NativeBatchRefused(batch) == EveryIsBlack(batch)

\* generateThumbnailsWithVideo: getVideoDuration, the loading of the <video>
\* element, the frame loop and the final check; it shares nothing with other
\* operations, so one step
NativeStrategy(o) ==
  /\ ops[o].pc = "native"
  /\ \/ \* const duration = await this.getVideoDuration(videoFile) rejects
        ops' = [ops EXCEPT ![o] =
                  AfterRunThrew(WithRun(ops[o],
                                        [CurrentRun(ops[o]) EXCEPT
                                           !.durationFailed = TRUE]))]
     \/ \* the loading of the element rejects
        ops' = [ops EXCEPT ![o] =
                  AfterRunThrew(WithRun(ops[o],
                                        [CurrentRun(ops[o]) EXCEPT
                                           !.duration = ops[o].duration]))]
     \/ LET times == CalculateSnapshotTimes(ops[o].duration, NumSnapshots,
                                              DefaultThumbnailInterval)
          IN  \E outcomes \in [1..Len(times) -> FrameOutcomes] :
                LET run == NativeLoop(times, outcomes, 1,
                                      [CurrentRun(ops[o]) EXCEPT
                                         !.duration = ops[o].duration,
                                         !.times = times])
                    op1 == WithRun(ops[o], run)
                IN  ops' = [ops EXCEPT ![o] =
                              IF NativeBatchRefused(run.batch)
                              THEN AfterRunThrew(op1)
                              ELSE AfterRunReturned(op1)]
  /\ UNCHANGED <<ffmpegLoading, ffmpegInstance, loads, fs, uploadVars, otherVars>>

\* a ThumbnailGenerator with no call made on it and no upload going on
GenInit ==
  /\ GenIdle
  /\ OtherIdle
  /\ config = [maxRetries |-> DefaultMaxRetries]
  /\ request = NoRequest
  /\ pc = "idle"
  /\ attempts = 0
  /\ totalProgress = 0
  /\ thumbnails = <<>>
  /\ result = Pending
  /\ progressLog = <<>>
  /\ thumbsCompleteLog = <<>>
  /\ xhrLog = <<>>
  /\ delayLog = <<>>
  /\ genLog = <<>>
  /\ lastLoaded = 0
  /\ iter = 0
  /\ ticks = 0
  /\ thrownAt = <<>>

\* one generateThumbnails or preloadFFmpeg call on a fresh generator, with
\* every step of both strategies
GenNext ==
  \/ PreloadFFmpeg(1)
  \/ PreloadSettles(1)
  \/ LoadSucceeds
  \/ LoadFails
  \/ GenerateThumbnails(1)
  \/ FFmpegBegin(1)
  \/ FFmpegLoaded(1)
  \/ FFmpegWriteInput(1)
  \/ FFmpegExec(1)
  \/ FFmpegReadFile(1)
  \/ FFmpegDeleteOutput(1)
  \/ FFmpegCleanup(1)
  \/ NativeStrategy(1)

GenSpec == GenInit /\ [][GenNext]_vars

\* what loadFFmpeg's callers differ in: the method and the format; one video
LoadInputs ==
  {input \in GenerateInputs :
     /\ input.file = VideoBlob
     /\ input.duration = DefaultThumbnailInterval - 2}

\* up to MaxOps overlapping callers of loadFFmpeg, each followed until the
\* promise loadFFmpeg gave it has settled
LoadNext ==
  \/ \E o \in Ops : PreloadFFmpeg(o)
  \/ \E o \in Ops : PreloadSettles(o)
  \/ LoadSucceeds
  \/ LoadFails
  \/ \E o \in Ops : GenerateThumbnailsWith(o, LoadInputs)
  \/ \E o \in Ops : FFmpegBegin(o)
  \/ \E o \in Ops : FFmpegLoaded(o)

LoadSpec == GenInit /\ [][LoadNext]_vars

\* the calls with method ffmpeg
EngineInputs == {input \in GenerateInputs : input.method = "ffmpeg"}

\* up to MaxInterleaved generateThumbnails operations with method ffmpeg,
\* followed through the engine strategy, on one engine filesystem
EngineNext ==
  \/ LoadSucceeds
  \/ LoadFails
  \/ \E o \in 1..MaxInterleaved : GenerateThumbnailsWith(o, EngineInputs)
  \/ \E o \in 1..MaxInterleaved : FFmpegBegin(o)
  \/ \E o \in 1..MaxInterleaved : FFmpegLoaded(o)
  \/ \E o \in 1..MaxInterleaved : FFmpegWriteInput(o)
  \/ \E o \in 1..MaxInterleaved : FFmpegExec(o)
  \/ \E o \in 1..MaxInterleaved : FFmpegReadFile(o)
  \/ \E o \in 1..MaxInterleaved : FFmpegDeleteOutput(o)
  \/ \E o \in 1..MaxInterleaved : FFmpegCleanup(o)

EngineSpec == GenInit /\ [][EngineNext]_vars

\* ------------------------------------------------------- reading the logs
Settled == result.kind # "pending"

\* every call of a caller-supplied callback has returned normally so far
NoCallbackThrew == thrownAt = <<>>

\* an uploadToPresignedUrl promise that rejected (non-2xx status, network
\* error or timeout: the catch branch does not tell them apart)
Failures == {"failed"}

AllTransfersFailed ==
  \A k \in 1..Len(xhrLog) : xhrLog[k].outcome \in Failures

SomeTransferSucceeded ==
  \E k \in 1..Len(xhrLog) : xhrLog[k].outcome = "ok"

AllTransfersMonotone ==
  \A k \in 1..Len(xhrLog) : xhrLog[k].monotone

CountStatus(st) ==
  Cardinality({i \in 1..Len(progressLog) : progressLog[i].status = st})

LastStatus ==
  IF progressLog = <<>> THEN "none" ELSE progressLog[Len(progressLog)].status

ThumbnailGenerationFailed ==
  \E g \in 1..Len(genLog) : genLog[g].outcome = "rejected"

\* ---------------------------------------------------------------- claims

\* C1: the transfer (uploadToPresignedUrl) is attempted at most maxRetries
\* times, whatever the transport and the callbacks do; once maxRetries
\* attempts have failed the call is on its way to rejection (catch branch) or
\* has rejected, and no further attempt is in flight or follows.
C1_AtMostMaxRetriesAttempts ==
  /\ Len(xhrLog) <= config.maxRetries
  /\ (Len(xhrLog) >= 1 /\ Len(xhrLog) = config.maxRetries /\ AllTransfersFailed)
       => /\ pc \in {"catch", "rejected"}
          /\ (pc = "rejected" => result.kind = "rejected")

C1_Witness ==
  /\ config.maxRetries = DefaultMaxRetries
  /\ Len(xhrLog) = DefaultMaxRetries
  /\ AllTransfersFailed
  /\ pc = "rejected"
  /\ result.error = "UploadError: Failed to upload content after multiple attempts"

\* C2: (callbacks returning normally) retryDelay is invoked once after each
\* failed attempt that is not the maxRetries-th, with attempt indices that
\* strictly increase, never after a successful attempt; if the first
\* maxRetries-1 attempts failed and the next one succeeded, it has been invoked
\* exactly maxRetries-1 times and the call does not reject.
C2_RetryDelayAfterEachFailedAttempt ==
  NoCallbackThrew =>
    /\ \A i \in 1..Len(delayLog) :
         /\ delayLog[i].iter = i
         /\ xhrLog[i].outcome \in Failures
         /\ delayLog[i].attempt < config.maxRetries
         /\ (i > 1 => delayLog[i - 1].attempt < delayLog[i].attempt)
    /\ \A k \in 1..Len(xhrLog) :
         ( /\ xhrLog[k].outcome \in Failures
           /\ k < config.maxRetries
           /\ (k < Len(xhrLog) \/ pc # "catch") )
         => k <= Len(delayLog)
    /\ ( /\ Len(xhrLog) >= 1
         /\ Len(xhrLog) = config.maxRetries
         /\ xhrLog[Len(xhrLog)].outcome = "ok"
         /\ \A k \in 1..(Len(xhrLog) - 1) : xhrLog[k].outcome \in Failures )
       => /\ Len(delayLog) = config.maxRetries - 1
          /\ pc \in {"afterUpload", "thumbs", "thumbCatch", "resolved"}
          /\ (pc = "resolved" => result.kind = "resolved")

C2_Witness ==
  /\ NoCallbackThrew
  /\ config.maxRetries = DefaultMaxRetries
  /\ Len(xhrLog) = DefaultMaxRetries
  /\ xhrLog[1].outcome \in Failures
  /\ xhrLog[2].outcome \in Failures
  /\ xhrLog[3].outcome = "ok"
  /\ Len(delayLog) = 2
  /\ result.kind = "resolved"

\* C3: generateThumbnails is called, and the statuses generatingThumbnails and
\* uploadCompleted are emitted, only after some transfer attempt completed
\* with a 2xx response, for every configured maxRetries.
C3_ThumbnailPhaseOnlyAfter2xx ==
  ( \/ genLog # <<>>
    \/ CountStatus("generatingThumbnails") > 0
    \/ CountStatus("uploadCompleted") > 0 )
  => SomeTransferSucceeded

\* C4: errorUploading is never followed by another onProgress call; and
\* (callbacks returning normally) a call all of whose transfer attempts failed
\* has made maxRetries attempts, has rejected, has not called
\* generateThumbnails, and has emitted errorUploading exactly once, last,
\* after the last failed attempt.
C4_ErrorUploadingOnceThenReject ==
  /\ \A i \in 1..Len(progressLog) :
       progressLog[i].status = "errorUploading" => i = Len(progressLog)
  /\ (NoCallbackThrew /\ Settled /\ Len(xhrLog) >= 1 /\ AllTransfersFailed)
       => /\ result.kind = "rejected"
          /\ Len(xhrLog) = config.maxRetries
          /\ genLog = <<>>
          /\ request.onProgress =>
               /\ CountStatus("errorUploading") = 1
               /\ LastStatus = "errorUploading"
               /\ progressLog[Len(progressLog)].iter = xhrLog[Len(xhrLog)].iter

C4_Witness ==
  /\ NoCallbackThrew
  /\ request.onProgress
  /\ pc = "rejected"
  /\ Len(xhrLog) = 2
  /\ AllTransfersFailed
  /\ LastStatus = "errorUploading"

\* C5: a call on a file whose type begins with none of video/, image/, audio/
\* has rejected with an UploadError on entry: there is no transfer attempt,
\* no onProgress call, no onThumbnailsComplete call and no thumbnail
\* generation.
C5_UnsupportedTypeRejectsBeforeTransfer ==
  ( /\ pc # "idle"
    /\ \A prefix \in {VideoPrefix, ImagePrefix, AudioPrefix} :
         ~StartsWith(request.file, prefix) )
  => /\ pc = "rejected"
     /\ result = Rejected("UploadError: Unsupported file type")
     /\ xhrLog = <<>>
     /\ progressLog = <<>>
     /\ thumbsCompleteLog = <<>>
     /\ genLog = <<>>

C5_Witness ==
  /\ pc = "rejected"
  /\ request.file = TextPlain
  /\ request.onProgress
  /\ request.onThumbnailsComplete

\* C6: (callbacks returning normally) once generateThumbnails has rejected the
\* call never rejects; it resolves with the empty thumbnails list, and the last
\* onProgress status is errorGeneratingThumbnails.
C6_ThumbnailFailureNeverRejects ==
  (NoCallbackThrew /\ ThumbnailGenerationFailed)
  => /\ pc \in {"thumbCatch", "resolved"}
     /\ result.kind # "rejected"
     /\ pc = "resolved" =>
          /\ result = Resolved(<<>>)
          /\ request.onProgress => LastStatus = "errorGeneratingThumbnails"

C6_Witness ==
  /\ NoCallbackThrew
  /\ ThumbnailGenerationFailed
  /\ SomeTransferSucceeded
  /\ request.onProgress
  /\ pc = "resolved"
  /\ result = Resolved(<<>>)

\* generateThumbnails has resolved and the rest of the inner try block has
\* run up to the call of onThumbnailsComplete
ThumbnailsCompleteReached ==
  /\ genLog # <<>>
  /\ genLog[Len(genLog)].outcome = "resolved"
  /\ \A i \in 1..Len(thrownAt) : thrownAt[i] # "thumbnailsDone"

C8_PercentageMonotonicOverCall ==
  (NoCallbackThrew /\ AllTransfersMonotone)
  => /\ \A i \in 1..Len(progressLog) : progressLog[i].percentage <= 100
     /\ \A i \in 1..Len(progressLog), j \in 1..Len(progressLog) :
          i < j => progressLog[i].percentage <= progressLog[j].percentage

\* the onProgress calls of pass it of the loop made from the given places, up
\* to position c of the log
EmittedIn(it, sites, c) ==
  {i \in 1..c : progressLog[i].iter = it /\ progressLog[i].site \in sites}

NonDecreasing(positions) ==
  \A i \in positions, j \in positions :
    i < j => progressLog[i].percentage <= progressLog[j].percentage

\* C9: for every transfer attempt that succeeded and whose transport reported
\* non-decreasing loaded bytes, the percentages emitted for the transfer (the
\* progress events and the uploadCompleted notification) never decrease, and
\* the uploadCompleted notification carries 100; when no callback has thrown
\* this includes the "uploading" notification that opens the attempt.
C9_PercentageMonotonicInSuccessfulAttempt ==
  \A k \in 1..Len(xhrLog) :
    (request.onProgress /\ xhrLog[k].outcome = "ok" /\ xhrLog[k].monotone)
    => \E c \in 1..Len(progressLog) :
         /\ progressLog[c].iter = xhrLog[k].iter
         /\ progressLog[c].site = "uploadCompleted"
         /\ progressLog[c].status = "uploadCompleted"
         /\ progressLog[c].percentage = 100
         /\ NonDecreasing(EmittedIn(xhrLog[k].iter,
                                    {"xhrProgress", "uploadCompleted"}, c))
         /\ NoCallbackThrew =>
              NonDecreasing(EmittedIn(xhrLog[k].iter,
                                      {"attemptStart", "xhrProgress",
                                       "uploadCompleted"}, c))

C9_Witness ==
  /\ pc = "resolved"
  /\ Len(xhrLog) = 1
  /\ xhrLog[1].outcome = "ok"
  /\ xhrLog[1].monotone
  /\ Len(progressLog) = 4
  /\ progressLog[2].percentage = 50
  /\ progressLog[3].percentage = 100
  /\ progressLog[4].status = "uploadCompleted"

\* the order of statuses C10 allows, as an automaton over the statuses seen
StatusOrderStep(state, status) ==
  CASE state = "start" /\ status = "uploading" -> "uploading"
    [] state = "uploading" /\ status = "uploading" -> "uploading"
    [] state = "uploading" /\ status = "errorUploading" -> "failed"
    [] state = "uploading" /\ status = "uploadCompleted" -> "uploaded"
    [] state = "uploaded" /\ status = "generatingThumbnails" -> "generating"
    [] state = "generating" /\ status = "thumbnailsGenerated" -> "finished"
    [] state = "generating" /\ status = "errorGeneratingThumbnails" -> "finished"
    [] OTHER -> "outOfOrder"

RECURSIVE StatusOrderRun(_, _)
StatusOrderRun(n, state) ==
  IF n > Len(progressLog) THEN state
  ELSE StatusOrderRun(n + 1, StatusOrderStep(state, progressLog[n].status))

\* C10: (maxRetries at least 1, whatever the callbacks do) the statuses passed
\* to onProgress follow the order uploading+, then errorUploading or
\* uploadCompleted [generatingThumbnails, then one of thumbnailsGenerated /
\* errorGeneratingThumbnails]; thumbnailsGenerated and
\* errorGeneratingThumbnails are never both emitted in one call.
C10_StatusOrder ==
  config.maxRetries >= 1
  => /\ StatusOrderRun(1, "start") # "outOfOrder"
     /\ ~(CountStatus("thumbnailsGenerated") > 0
          /\ CountStatus("errorGeneratingThumbnails") > 0)

\* the URL.createObjectURL(request.file) entry the earlier uploadContent
\* pushes for an image; generated thumbnails are numbered from 1
OriginalFileUrl == 0

\* C11: a call that resolves after a successful transfer of a file whose type
\* begins with image/ (and not video/) resolves with exactly one thumbnail,
\* the reference to the original file, and has not called the
\* ThumbnailGenerator.
C11_ImageThumbnailIsOriginal ==
  ( /\ pc = "resolved"
    /\ SomeTransferSucceeded
    /\ StartsWith(request.file, ImagePrefix)
    /\ ~StartsWith(request.file, VideoPrefix) )
  => /\ result.thumbnails = <<OriginalFileUrl>>
     /\ genLog = <<>>

\* ------------------------------------------ reading the strategy runs
Generate(o) == ops[o].kind = "generate"

RunsOf(o, strategy) ==
  {r \in 1..Len(ops[o].runs) : ops[o].runs[r].strategy = strategy}

\* the engine strategy of operation o returned a batch, every frame of which
\* shows a mostly black picture
EngineBatchAllBlack(o) ==
  \E r \in RunsOf(o, "ffmpeg") :
    /\ ops[o].runs[r].outcome = "returned"
    /\ \A i \in 1..Len(ops[o].runs[r].batch) : ops[o].runs[r].batch[i].black

\* C12: a generateThumbnails call with method auto whose engine strategy
\* returned only mostly black frames does not resolve with them: when it
\* resolves the native strategy has run and every frame of the result is
\* tagged native.
C12_AllBlackEngineBatchFallsBack ==
  \A o \in Ops :
    ( /\ Generate(o)
      /\ ops[o].method = "auto"
      /\ ops[o].settled = "resolved"
      /\ EngineBatchAllBlack(o) )
    => /\ RunsOf(o, "native") # {}
       /\ \A i \in 1..Len(ops[o].value) : ops[o].value[i].method = "native"

\* C13: in a generateThumbnails call with method auto the engine strategy is
\* the first one run; the native strategy is run only after the engine
\* strategy threw or returned a batch whose frames are all flagged black; at
\* most three strategy runs are made; and a call in which the native
\* strategy has thrown does not resolve: once settled it is rejected.
C13_AutoEngineFirstNativeFailureRejects ==
  \A o \in Ops :
    (Generate(o) /\ ops[o].method = "auto")
    => LET runs == ops[o].runs
       IN  /\ runs # <<>> => runs[1].strategy = "ffmpeg"
           /\ \A r \in 2..Len(runs) :
                /\ runs[r].strategy = "native"
                /\ \/ runs[1].outcome = "threw"
                   \/ runs[1].outcome = "returned" /\ EveryIsBlack(runs[1].batch)
           /\ Len(runs) <= 3
           /\ ( /\ ops[o].settled # "pending"
                /\ \E r \in RunsOf(o, "native") : runs[r].outcome = "threw" )
              => ops[o].settled = "rejected"

\* the load of the engine that operation o awaited failed
EngineInitialisationFailed(o) ==
  /\ ops[o].awaiting # 0
  /\ LoadState(ops[o].awaiting) = "rejected"

\* C14: a generateThumbnails call with method ffmpeg whose engine
\* initialisation failed never runs the native strategy, and once it has
\* seen the failure it is rejected.
C14_ExplicitEngineFailurePropagates ==
  \A o \in Ops :
    ( /\ Generate(o)
      /\ ops[o].method = "ffmpeg"
      /\ EngineInitialisationFailed(o) )
    => /\ RunsOf(o, "native") = {}
       /\ ops[o].pc # "ffLoad" => ops[o].settled = "rejected"

Callers == {o \in Ops : ops[o].awaiting # 0}

\* C16: FFmpeg.load() is invoked again only after every earlier load has
\* failed, so at most one load is in flight or has succeeded; the callers of
\* loadFFmpeg (preloadFFmpeg and generateThumbnails alike) whose
\* initialisation has not failed all await one and the same promise, the one
\* ffmpegLoading holds.
C16_SingleFlightEngineLoad ==
  /\ \A p \in 1..(Len(loads) - 1) : loads[p] = "rejected"
  /\ \A a \in Callers, b \in Callers :
       ( /\ LoadState(ops[a].awaiting) # "rejected"
         /\ LoadState(ops[b].awaiting) # "rejected" )
       => /\ ops[a].awaiting = ops[b].awaiting
          /\ ops[a].awaiting = ffmpegLoading

C16_Witness ==
  /\ loads = <<"rejected", "fulfilled">>
  /\ \E a \in Callers, b \in Callers, c \in Callers :
       /\ ops[a].kind = "preload"
       /\ ops[b].kind = "generate"
       /\ ops[a].awaiting = 2
       /\ ops[b].awaiting = 2
       /\ ops[c].awaiting = 1

\* C17: a preloadFFmpeg call never rejects; it resolves true when the load it
\* awaited succeeded and false when that load failed.
C17_PreloadNeverRejects ==
  \A o \in Ops :
    ops[o].kind = "preload"
    => /\ ops[o].settled # "rejected"
       /\ ops[o].settled = "resolved" =>
            /\ LoadState(ops[o].awaiting) # "pending"
            /\ ops[o].loaded = "true"
                 <=> LoadState(ops[o].awaiting) = "fulfilled"
            /\ ops[o].loaded = "false"
                 <=> LoadState(ops[o].awaiting) = "rejected"

C17_Witness ==
  \E a \in Ops, b \in Ops :
    /\ ops[a].kind = "preload"
    /\ ops[a].settled = "resolved"
    /\ ops[a].loaded = "false"
    /\ ops[b].kind = "preload"
    /\ ops[b].settled = "resolved"
    /\ ops[b].loaded = "true"

\* the timestamps, among those attempted, whose extraction succeeded
ExtractedTimes(run) ==
  LET Ok(i) == run.extraction[i] = "ok"
      positions == SelectSeq([i \in 1..Len(run.extraction) |-> i], Ok)
  IN  [j \in 1..Len(positions) |-> run.times[positions[j]]]

\* C18: in a run of either strategy whose frame loop is over every scheduled
\* timestamp has been attempted, whatever failed on the way, and at any
\* moment the frames pushed are exactly those of the attempted timestamps
\* whose extraction succeeded, in order; so is the batch the run returns.
C18_FrameFailureDoesNotAbortBatch ==
  \A o \in Ops : \A r \in 1..Len(ops[o].runs) :
    LET run == ops[o].runs[r]
    IN  /\ run.k > Len(run.times) => Len(run.extraction) = Len(run.times)
        /\ run.outcome = "returned" => run.k = Len(run.times) + 1
        /\ Len(run.extraction) <= Len(run.times)
        /\ [i \in 1..Len(run.batch) |-> run.batch[i].timestamp]
             = ExtractedTimes(run)

C18_Witness ==
  \E o \in Ops :
    /\ Len(ops[o].runs) = 2
    /\ ops[o].runs[1].strategy = "ffmpeg"
    /\ ops[o].runs[1].outcome = "returned"
    /\ ops[o].runs[1].extraction = <<"readFailed", "execFailed">>
    /\ ops[o].runs[2].strategy = "native"
    /\ ops[o].runs[2].outcome = "returned"
    /\ ops[o].runs[2].extraction = <<"captureFailed", "ok">>
    /\ ops[o].settled = "resolved"
    /\ Len(ops[o].value) = 1

\* the files operation o wrote or had the engine write that are still there
FilesOf(o) == {name \in FileNames : fs[name] = o}

\* C19: (no deleteFile call of the run having failed) once a run of the
\* engine strategy has finished, by returning or by throwing, the engine's
\* filesystem holds none of the files the operation created, whether exec or
\* readFile failed on the way.
C19_EngineFilesCleanedUp ==
  \A o \in Ops : \A r \in RunsOf(o, "ffmpeg") :
    ( /\ ops[o].runs[r].outcome # "running"
      /\ ~ops[o].runs[r].deleteFailed )
    => FilesOf(o) = {}

\* operation o has written its input file and not yet deleted it
InputInFlight(o) ==
  /\ Generate(o)
  /\ ops[o].pc \in {"ffExec", "ffRead", "ffDelete", "ffCleanup"}

\* C20: two operations whose engine strategies are in flight at the same
\* time hold their inputs under different file names, and each still finds
\* its own input there.
C20_InputFileNamesDistinct ==
  \A a \in Ops, b \in Ops :
    (a # b /\ InputInFlight(a) /\ InputInFlight(b))
    => /\ InputFileName(ops[a].file) # InputFileName(ops[b].file)
       /\ fs[InputFileName(ops[a].file)] = a

\* ffmpeg.exec is called in the continuation that follows the previous await
\* of the frame loop (writeFile before the first frame, deleteFile or the
\* catch before the later ones), so an operation at the exec step has its
\* exec promise pending: the call is made and has not settled
ExecInFlight(o) ==
  /\ Generate(o)
  /\ ops[o].pc = "ffExec"

\* C21: on one ThumbnailGenerator at most one ffmpeg.exec call is in flight
\* at any time, however many generateThumbnails calls overlap.
C21_AtMostOneExecInFlight ==
  \A a \in Ops, b \in Ops :
    (ExecInFlight(a) /\ ExecInFlight(b)) => a = b

\* the transfers of the call whose promise has not settled
InFlight == {k \in 1..Len(xhrLog) : xhrLog[k].outcome = "pending"}

\* C22: the transfer attempts of one uploadContent call are strictly
\* sequential.  Whatever the callbacks do, at most one attempt is in flight
\* and it is the latest one; and (callbacks returning normally) an attempt
\* that is not the first was started after the one before it had settled as
\* failed and after the retry delay that follows that failure had been set
\* and had elapsed: while the delay runs no further attempt exists.
C22_AttemptsStrictlySequential ==
  /\ Cardinality(InFlight) <= 1
  /\ \A k \in InFlight : k = Len(xhrLog) /\ pc = "xhr"
  /\ NoCallbackThrew =>
       /\ \A k \in 2..Len(xhrLog) :
            /\ xhrLog[k - 1].outcome \in Failures
            /\ Len(delayLog) >= k - 1
            /\ delayLog[k - 1].iter = xhrLog[k - 1].iter
       /\ (pc = "delay" => Len(delayLog) = Len(xhrLog))
       /\ (pc = "xhr" => Len(delayLog) = Len(xhrLog) - 1)

C22_Witness ==
  /\ NoCallbackThrew
  /\ Len(xhrLog) = 3
  /\ xhrLog[1].outcome \in Failures
  /\ xhrLog[2].outcome \in Failures
  /\ InFlight = {3}
  /\ Len(delayLog) = 2
  /\ pc = "xhr"

\* ------------------------------------------- the snapshot schedulers, called
\* the arguments of a scheduler call: every duration from below zero up to
\* MaxSchedDuration, every count and every positive interval up to the bounds
SchedDurations == (0 - 2 * MaxSchedInterval)..MaxSchedDuration

SchedCalls ==
  [policy : {"simple", "even"}, duration : SchedDurations,
   numSnapshots : 0..MaxSchedSnapshots,
   thumbnailInterval : 1..MaxSchedInterval,
   returned : {FALSE}, times : {<<>>}, division : {"none"}]

\* the upload manager and the generator left alone
RestIdle ==
  /\ GenIdle
  /\ config = [maxRetries |-> DefaultMaxRetries]
  /\ request = NoRequest
  /\ pc = "idle"
  /\ attempts = 0
  /\ totalProgress = 0
  /\ thumbnails = <<>>
  /\ result = Pending
  /\ progressLog = <<>>
  /\ thumbsCompleteLog = <<>>
  /\ xhrLog = <<>>
  /\ delayLog = <<>>
  /\ genLog = <<>>
  /\ lastLoaded = 0
  /\ iter = 0
  /\ ticks = 0
  /\ thrownAt = <<>>

SchedInit ==
  /\ RestIdle
  /\ sched \in SchedCalls
  /\ timeoutCall = TimeoutIdle
  /\ em = EmIdle
  /\ MoreIdle

\* ThumbnailGenerator.calculateSnapshotTimes(duration, numSnapshots, thumbnailInterval)
SimpleSchedulerReturns ==
  /\ sched.policy = "simple"
  /\ ~sched.returned
  /\ sched' = [sched EXCEPT
       !.returned = TRUE,
       !.times = CalculateSnapshotTimes(sched.duration, sched.numSnapshots,
                                        sched.thumbnailInterval)]
  /\ UNCHANGED <<uploadVars, genVars, timeoutCall, em, moreVars>>

\* calculateSnapshotTimes(duration, numSnapshots, thumbnailInterval) of
\* modules/thumbnail/index.ts
EvenSchedulerReturns ==
  /\ sched.policy = "even"
  /\ ~sched.returned
  /\ LET r == ThumbnailModuleCalculateSnapshotTimes(
                sched.duration, sched.numSnapshots, sched.thumbnailInterval)
     IN  sched' = [sched EXCEPT !.returned = TRUE, !.times = r.times,
                                !.division = r.division]
  /\ UNCHANGED <<uploadVars, genVars, timeoutCall, em, moreVars>>

SchedNext ==
  \/ SimpleSchedulerReturns
  \/ EvenSchedulerReturns

SchedSpec == SchedInit /\ [][SchedNext]_vars

StrictlyIncreasing(times) ==
  \A i \in 1..Len(times), j \in 1..Len(times) : i < j => times[i] < times[j]

AllBefore(times, duration) ==
  \A i \in 1..Len(times) : times[i] < duration

\* C23: for every duration, snapshot count >= 0 and interval > 0 the
\* timestamps ThumbnailGenerator.calculateSnapshotTimes returns are strictly
\* increasing and all strictly less than the duration.
C23_SimpleTimesIncreasingBeforeDuration ==
  ( /\ sched.policy = "simple"
    /\ sched.returned
    /\ sched.numSnapshots >= 0
    /\ sched.thumbnailInterval > 0 )
  => /\ StrictlyIncreasing(sched.times)
     /\ AllBefore(sched.times, sched.duration)

\* a call the duration cuts short: 4 snapshots every 3 units of a video of
\* 9 units give 3 and 6
C23_Witness ==
  /\ sched.policy = "simple"
  /\ sched.returned
  /\ sched.duration = 9
  /\ sched.numSnapshots = 4
  /\ sched.thumbnailInterval = 3
  /\ sched.times = <<3, 6>>

\* C24: for every duration > 0, snapshot count >= 1 and interval > 0 the
\* timestamps the even-spacing calculateSnapshotTimes of the thumbnail module
\* returns are strictly increasing and all strictly less than the duration.
C24_EvenTimesIncreasingBeforeDuration ==
  ( /\ sched.policy = "even"
    /\ sched.returned
    /\ sched.duration > 0
    /\ sched.numSnapshots >= 1
    /\ sched.thumbnailInterval > 0 )
  => /\ StrictlyIncreasing(sched.times)
     /\ AllBefore(sched.times, sched.duration)

\* C25: for every duration <= 0, any snapshot count >= 0 and interval > 0,
\* the even-spacing calculateSnapshotTimes of the thumbnail module returns
\* the empty sequence and divides by zero nowhere.
C25_EvenEmptyForNonPositiveDuration ==
  ( /\ sched.policy = "even"
    /\ sched.returned
    /\ sched.duration <= 0
    /\ sched.numSnapshots >= 0
    /\ sched.thumbnailInterval > 0 )
  => /\ sched.times = <<>>
     /\ sched.division # "byZero"

\* ------------------------------------------------ calculateTimeout, called
\* file sizes: a few bytes; and whole blocks of 64 KiB, 1 MiB and a byte,
\* the size whose timeout is exactly the default cap, one KiB less and more,
\* and 10 GiB
TenGiB == KiB(10 * 1024 * 1024)

SmallFileSizes == {Bytes(n) : n \in 0..MaxSmallFileBytes}

LargeFileSizes ==
  {KiB(64 * k) : k \in 1..MaxFileBlocks}
    \cup {Bytes(1024 * 1024 + 1),
          KiB(6000 * 1024 - 1), KiB(6000 * 1024), KiB(6000 * 1024 + 1), TenGiB}

\* overrides given to the constructor: a slow link of 7 bytes per second
\* with a cap of 3 s; 3 bytes per second and no buffer; 1 KiB per second,
\* half as much again and a cap of 1 s
OverridingUploadConfigs ==
  {[minSpeedBps |-> Bytes(7), bufferPercentage |-> Rat(2, 10),
    maxTimeout |-> 3000],
   [minSpeedBps |-> Bytes(3), bufferPercentage |-> Rat(0, 1),
    maxTimeout |-> 2 * 60 * 60 * 1000],
   [minSpeedBps |-> KiB(1), bufferPercentage |-> Rat(1, 2),
    maxTimeout |-> 1000]}

\* the calls made: every size under the defaults, the small sizes under the
\* overriding configurations (their timeouts stay within 32 bits before the cap)
TimeoutCalls ==
  [fileSize : SmallFileSizes \cup LargeFileSizes,
   config : {DefaultUploadConfig}, returned : {FALSE}, ms : {0}]
    \cup [fileSize : SmallFileSizes, config : OverridingUploadConfigs,
          returned : {FALSE}, ms : {0}]

TimeoutInit ==
  /\ RestIdle
  /\ sched = SchedIdle
  /\ timeoutCall \in TimeoutCalls
  /\ em = EmIdle
  /\ MoreIdle

\* const dynamicTimeout = this.calculateTimeout(request.file.size)
CalculateTimeoutReturns ==
  /\ ~timeoutCall.returned
  /\ timeoutCall' = [timeoutCall EXCEPT
       !.returned = TRUE,
       !.ms = CalculateTimeout(timeoutCall.fileSize, timeoutCall.config)]
  /\ UNCHANGED <<uploadVars, genVars, sched, em, moreVars>>

TimeoutNext == CalculateTimeoutReturns

TimeoutSpec == TimeoutInit /\ [][TimeoutNext]_vars

\* ceil(1000 * (size / minSpeedBps) * (1 + bufferPercentage))
StatedTimeout(fileSize, cfg) ==
  RatCeil(RatMul(RatMul(Rat(1000, 1), RatDiv(fileSize, cfg.minSpeedBps)),
                 RatAdd(Rat(1, 1), cfg.bufferPercentage)))

\* C26: calculateTimeout(size) is min(maxTimeout, ceil(1000 * (size /
\* minSpeedBps) * (1 + bufferPercentage))) for every file size; with the
\* defaults a 10 GiB file gets min(maxTimeout, 12288000) ms; the result never
\* exceeds maxTimeout.
C26_TimeoutFormulaAndCap ==
  timeoutCall.returned =>
    /\ timeoutCall.ms = Min(timeoutCall.config.maxTimeout,
                            StatedTimeout(timeoutCall.fileSize,
                                          timeoutCall.config))
    /\ ( /\ timeoutCall.config = DefaultUploadConfig
         /\ timeoutCall.fileSize = TenGiB )
       => timeoutCall.ms = Min(DefaultUploadConfig.maxTimeout, 12288000)
    /\ timeoutCall.ms <= timeoutCall.config.maxTimeout

\* 1000 * (size / minSpeedBps) * (1 + bufferPercentage), exactly
ExactTimeoutMs(fileSize, cfg) ==
  RatMul(RatMul(Rat(1000, 1), RatDiv(fileSize, cfg.minSpeedBps)),
         RatAdd(Rat(1, 1), cfg.bufferPercentage))

\* C26 (amended): calculateTimeout(size) is min(maxTimeout, t) where t is
\* ceil(1000 * (size / minSpeedBps) * (1 + bufferPercentage)) or, when that
\* product is a whole number that the double-precision arithmetic overshoots,
\* one millisecond more; with the defaults a 10 GiB file gets
\* min(maxTimeout, 12288000) ms; the result never exceeds maxTimeout.
C26_TimeoutFormulaUpToRounding ==
  timeoutCall.returned =>
    LET cfg == timeoutCall.config
        stated == StatedTimeout(timeoutCall.fileSize, cfg)
    IN  /\ timeoutCall.ms \in {Min(cfg.maxTimeout, stated),
                               Min(cfg.maxTimeout, stated + 1)}
        /\ ExactTimeoutMs(timeoutCall.fileSize, cfg).den # 1
             => timeoutCall.ms = Min(cfg.maxTimeout, stated)
        /\ ( /\ cfg = DefaultUploadConfig
             /\ timeoutCall.fileSize = TenGiB )
           => timeoutCall.ms = Min(DefaultUploadConfig.maxTimeout, 12288000)
        /\ timeoutCall.ms <= cfg.maxTimeout

\* a file of 109 blocks of 64 KiB under the defaults: the product is 8175
\* exactly, the doubles give a little more and the timeout is 8176 ms
C26_Witness ==
  /\ timeoutCall.returned
  /\ timeoutCall.config = DefaultUploadConfig
  /\ timeoutCall.fileSize = KiB(64 * 109)
  /\ ExactTimeoutMs(timeoutCall.fileSize, timeoutCall.config) = Rat(8175, 1)
  /\ timeoutCall.ms = 8176

\* C27: with the default configuration the waits before successive retries
\* of a failed transfer are 1 s, then 2 s, then 4 s: the i-th wait of a call
\* lasts 1000 * 2^(i - 1) ms.
C27_DefaultWaitsOneTwoFour ==
  config.maxRetries = DefaultMaxRetries =>
    \A i \in 1..Len(delayLog) : delayLog[i].ms = 1000 * Pow2(i - 1)

\* ------------------------------------ the event-emitting UploadManager
\* the events of the underlying uploader that are forwarded unchanged
ForwardedEvents == {"uploadProgress", "uploadError", "uploadPaused",
                    "uploadResumed"}

\* this.emit(name, ...): report is the position among the uploader's
\* uploadComplete events of the one being handled (0 for a forwarded event),
\* thumbnails the list passed along with thumbnailsGenerated
Emitted(name, report, list) ==
  [name |-> name, report |-> report, thumbnails |-> list]

\* uploadContent up to the await: new FastevoUploader, the five
\* this.uploader.on(...) registrations and this.uploader.start(file)
EmUploadContent ==
  /\ em.pc = "idle"
  /\ \E generate \in BOOLEAN :
       em' = [em EXCEPT !.pc = "started", !.generateThumbnails = generate]
  /\ UNCHANGED <<uploadVars, genVars, sched, timeoutCall, moreVars>>

\* the uploader emits uploadProgress, uploadError, uploadPaused or
\* uploadResumed and the registered arrow function emits it again
EmForward ==
  /\ em.pc # "idle"
  /\ em.forwarded < MaxForwarded
  /\ \E name \in ForwardedEvents :
       em' = [em EXCEPT !.events = Append(@, Emitted(name, 0, <<>>)),
                        !.forwarded = @ + 1]
  /\ UNCHANGED <<uploadVars, genVars, sched, timeoutCall, moreVars>>

\* the uploader emits uploadComplete: the async handler up to its await,
\* or to its end when no thumbnails were requested
EmUploaderComplete ==
  /\ em.pc # "idle"
  /\ Len(em.handlers) < MaxCompleteReports
  /\ LET h == Len(em.handlers) + 1
     IN  IF em.generateThumbnails
         THEN em' = [em EXCEPT
                !.events = Append(@, Emitted("thumbnailsGenerationStarted",
                                             h, <<>>)),
                !.handlers = Append(@, [pc |-> "generating",
                                        thumbnails |-> <<>>])]
         ELSE em' = [em EXCEPT
                !.events = Append(@, Emitted("uploadComplete", h, <<>>)),
                !.handlers = Append(@, [pc |-> "done", thumbnails |-> <<>>])]
  /\ UNCHANGED <<uploadVars, genVars, sched, timeoutCall, moreVars>>

\* await this.thumbnailGenerator.generateThumbnails(...) resolves: the two
\* emits that follow it
EmThumbnailsResolve(h) ==
  /\ h \in 1..Len(em.handlers)
  /\ em.handlers[h].pc = "generating"
  /\ \E n \in 0..MaxThumbnails :
       LET list == [i \in 1..n |-> i]
       IN  em' = [em EXCEPT
             !.handlers[h] = [pc |-> "done", thumbnails |-> list],
             !.events = @ \o <<Emitted("thumbnailsGenerated", h, list),
                               Emitted("uploadComplete", h, <<>>)>>]
  /\ UNCHANGED <<uploadVars, genVars, sched, timeoutCall, moreVars>>

\* await this.thumbnailGenerator.generateThumbnails(...) rejects: the async
\* handler ends with a rejected promise nobody holds
EmThumbnailsReject(h) ==
  /\ h \in 1..Len(em.handlers)
  /\ em.handlers[h].pc = "generating"
  /\ em' = [em EXCEPT !.handlers[h].pc = "threw"]
  /\ UNCHANGED <<uploadVars, genVars, sched, timeoutCall, moreVars>>

\* return { thumbnails: [] }
EmStartResult(handlers) == <<>>

\* await this.uploader.start(file) resolves
EmStartResolves ==
  /\ em.pc = "started"
  /\ em' = [em EXCEPT !.pc = "resolved",
                      !.result = Resolved(EmStartResult(em.handlers))]
  /\ UNCHANGED <<uploadVars, genVars, sched, timeoutCall, moreVars>>

\* await this.uploader.start(file) rejects: logged and thrown again
EmStartRejects ==
  /\ em.pc = "started"
  /\ em' = [em EXCEPT !.pc = "rejected", !.result = Rejected("upload error")]
  /\ UNCHANGED <<uploadVars, genVars, sched, timeoutCall, moreVars>>

EmInit ==
  /\ RestIdle
  /\ OtherIdle

EmNext ==
  \/ EmUploadContent
  \/ EmForward
  \/ EmUploaderComplete
  \/ \E h \in 1..MaxCompleteReports : EmThumbnailsResolve(h)
  \/ \E h \in 1..MaxCompleteReports : EmThumbnailsReject(h)
  \/ EmStartResolves
  \/ EmStartRejects

EmSpec == EmInit /\ [][EmNext]_vars

\* the promise of generateThumbnails settles once it is pending: its
\* continuation is run by the event loop.  What the uploader does is left open
EmLiveSpec ==
  /\ EmSpec
  /\ \A h \in 1..MaxCompleteReports :
       WF_vars(EmThumbnailsResolve(h) \/ EmThumbnailsReject(h))

\* positions in em.events of the events with this name emitted for report h
EmittedAt(name, h) ==
  {i \in 1..Len(em.events) :
     em.events[i].name = name /\ em.events[i].report = h}

\* C28: when uploadContent of the event-emitting UploadManager is called
\* with generateThumbnails set and thumbnail generation has succeeded, the
\* promise it returned resolves with the generated thumbnails.
C28_ResolvesWithGeneratedThumbnails ==
  \A h \in 1..Len(em.handlers) :
    ( /\ em.generateThumbnails
      /\ em.handlers[h].pc = "done"
      /\ em.result.kind = "resolved" )
    => em.result.thumbnails = em.handlers[h].thumbnails

\* C29: whenever the underlying uploader has reported uploadComplete, the
\* UploadManager eventually emits uploadComplete for it, thumbnails requested
\* or not and generated or not; and thumbnailsGenerated, when emitted, comes
\* before uploadComplete.
C29_UploadCompleteEventuallyEmitted ==
  /\ \A h \in 1..MaxCompleteReports :
       (Len(em.handlers) >= h) ~> (EmittedAt("uploadComplete", h) # {})
  /\ [](\A h \in 1..MaxCompleteReports :
          \A i \in EmittedAt("thumbnailsGenerated", h) :
            \A j \in EmittedAt("uploadComplete", h) : i < j)

\* ------------------------------------ FastevoUploader.generateThumbnails
\* mutant of FacadeCatch: the error is thrown again
FacadeCatchRethrows == Rejected("thumbnail error")

\* catch (error) { this.logger.error(...); return []; }
FacadeCatch == Resolved(<<>>)

\* FastevoUploader.generateThumbnails(file, options), as the settlement of
\* its promise given the call op it makes on the ThumbnailGenerator: pending
\* while that call is, thumbnails.map((thumbnail) => thumbnail.blobUrl) once
\* it resolved, the catch branch once it rejected
FastevoUploaderGenerateThumbnails(op) ==
  IF op.settled = "pending" THEN Pending
  ELSE IF op.settled = "resolved"
       THEN Resolved([i \in 1..Len(op.value) |-> op.value[i].blobUrl])
       ELSE FacadeCatch

\* C30: FastevoUploader.generateThumbnails never rejects: it resolves with
\* the blob URLs of the frames ThumbnailGenerator.generateThumbnails
\* returned, one for one in their order, and with the empty list when that
\* call fails.
C30_FacadeNeverRejects ==
  \A o \in Ops :
    Generate(o) =>
      LET facade == FastevoUploaderGenerateThumbnails(ops[o])
      IN  /\ facade.kind # "rejected"
          /\ ops[o].settled = "resolved" =>
               /\ facade.kind = "resolved"
               /\ Len(facade.thumbnails) = Len(ops[o].value)
               /\ \A i \in 1..Len(ops[o].value) :
                    facade.thumbnails[i] =
                      BlobUrl(ops[o].value[i].method, ops[o].value[i].timestamp)
          /\ ops[o].settled = "rejected" => facade = Resolved(<<>>)

\* the generator's call rejected (engine strategy failed, then the native
\* one) and the facade resolved with the empty list
C30_Witness ==
  \E o \in Ops :
    /\ Generate(o)
    /\ ops[o].settled = "rejected"
    /\ Len(ops[o].runs) = 2
    /\ FastevoUploaderGenerateThumbnails(ops[o]) = Resolved(<<>>)

\* --------------------------------- the retry loop and a callback that throws
\* C36: once a transfer attempt of the call has succeeded no further transfer
\* attempt is made in the call, whatever request.onProgress does (it may
\* throw while it is told of uploadCompleted): the successful transfer is the
\* last uploadToPresignedUrl call of the call
C36_NoTransferAfterSuccess ==
  \A i \in 1..Len(xhrLog) :
    xhrLog[i].outcome = "ok" => i = Len(xhrLog)

\* ------------------------------------------- loadFFmpeg after a failed load
\* the latest initialisation of the engine has failed
LatestLoadFailed == loads # <<>> /\ loads[Len(loads)] = "rejected"

\* operation o calls loadFFmpeg in this step and is handed promise p
CallsLoadFFmpeg(o, p) == ops[o].awaiting = 0 /\ ops'[o].awaiting = p

\* C38: a failed engine initialisation does not poison the generator: after
\* it ffmpegLoading and ffmpegInstance are both reset, a loadFFmpeg call made
\* after it is not handed the promise of a load that has already failed, and
\* the instance is handed out at once only if a load has completed
C38_FailedLoadDoesNotPoison ==
  /\ [](LatestLoadFailed => ffmpegLoading = 0 /\ ~ffmpegInstance)
  /\ [][\A o \in Ops : \A p \in 1..Len(loads) :
          CallsLoadFFmpeg(o, p) => loads[p] # "rejected"]_vars
  /\ [](\A o \in Ops :
          ops[o].awaiting = -1 =>
            \E p \in 1..Len(loads) : loads[p] = "fulfilled")

\* -------------------------------------------- the strategies run by a call
\* C39: in one generateThumbnails call each extraction strategy (engine,
\* native) is run at most once
C39_EachStrategyAtMostOnce ==
  \A o \in Ops :
    Generate(o) =>
      \A strategy \in {"ffmpeg", "native"} :
        Cardinality(RunsOf(o, strategy)) <= 1

\* ------------------------------------------------ the duration of a run
\* C31: in the engine strategy a getVideoDuration failure does not fail the
\* run: it goes on with a duration of 60 seconds, schedules the timestamps of
\* a 60 second video, and its frames carry videoDuration 60; in the native
\* strategy a getVideoDuration failure makes the run throw, with nothing
\* scheduled and no frame
C31_EngineDefaultsDurationNativeRejects ==
  \A o \in Ops : \A r \in 1..Len(ops[o].runs) :
    LET run == ops[o].runs[r]
    IN  run.durationFailed =>
          IF run.strategy = "ffmpeg"
          THEN /\ run.duration = 60
               /\ run.times = CalculateSnapshotTimes(60, NumSnapshots,
                                                     DefaultThumbnailInterval)
               /\ \A i \in 1..Len(run.batch) : run.batch[i].videoDuration = 60
          ELSE /\ run.outcome = "threw"
               /\ run.times = <<>>
               /\ run.batch = <<>>

\* an engine run on a video too short for any timestamp, whose duration
\* could not be obtained, has returned NumSnapshots frames
C31_Witness ==
  \E o \in Ops : \E r \in 1..Len(ops[o].runs) :
    LET run == ops[o].runs[r]
    IN  /\ run.strategy = "ffmpeg"
        /\ run.durationFailed
        /\ ops[o].duration < DefaultThumbnailInterval
        /\ run.outcome = "returned"
        /\ Len(run.batch) = NumSnapshots

\* ------------------- pause, resume and abort on the event-emitting manager
\* this.uploader = new FastevoUploader(...): the uploader of the call takes
\* the place of the one before it, and its upload starts
ControlUploadContent ==
  /\ Len(control.uploaders) < MaxUploads
  /\ control' = [control EXCEPT
       !.uploaders = Append(@, [settled |-> FALSE, received |-> <<>>]),
       !.uploader = Len(control.uploaders) + 1]
  /\ UNCHANGED <<uploadVars, genVars, sched, timeoutCall, em, blackCall, video>>

\* await this.uploader.start(file) of some call settles
ControlStartSettles ==
  /\ \E u \in 1..Len(control.uploaders) :
       /\ ~control.uploaders[u].settled
       /\ control' = [control EXCEPT !.uploaders[u].settled = TRUE]
  /\ UNCHANGED <<uploadVars, genVars, sched, timeoutCall, em, blackCall, video>>

\* mutant of AbortLeaves: the aborted uploader is kept
AbortLeavesUploader(uploader) == uploader

\* this.uploader = undefined
AbortLeaves(uploader) == 0

\* the body shared by pauseUpload, resumeUpload and abortUpload:
\* if (this.uploader) { this.uploader.<call>() } else { this.logger.warn(...) };
\* latest is the number of uploadContent calls made so far
ControlCall(call) ==
  /\ Len(control.calls) < MaxControlCalls
  /\ control' =
       IF control.uploader # 0
       THEN [control EXCEPT
               !.uploaders[control.uploader].received = Append(@, call),
               !.calls = Append(@, [call |-> call, target |-> control.uploader,
                                    latest |-> Len(control.uploaders),
                                    warned |-> FALSE]),
               !.uploader = IF call = "abort" THEN AbortLeaves(@) ELSE @]
       ELSE [control EXCEPT
               !.calls = Append(@, [call |-> call, target |-> 0,
                                    latest |-> Len(control.uploaders),
                                    warned |-> TRUE])]
  /\ UNCHANGED <<uploadVars, genVars, sched, timeoutCall, em, blackCall, video>>

PauseUpload == ControlCall("pause")

ResumeUpload == ControlCall("resume")

AbortUpload == ControlCall("abort")

ControlInit ==
  /\ RestIdle
  /\ OtherIdle

ControlNext ==
  \/ ControlUploadContent
  \/ ControlStartSettles
  \/ PauseUpload
  \/ ResumeUpload
  \/ AbortUpload

ControlSpec == ControlInit /\ [][ControlNext]_vars

\* control call i was made before the first uploadContent, or after an
\* abortUpload that no uploadContent has followed
MadeWithoutUpload(i) ==
  \/ control.calls[i].latest = 0
  \/ \E j \in 1..(i - 1) :
       /\ control.calls[j].call = "abort"
       /\ control.calls[j].latest = control.calls[i].latest

\* the control calls that were passed on to uploader u, in order
PassedOnTo(u) ==
  LET To(c) == c.target = u
      passed == SelectSeq(control.calls, To)
  IN  [i \in 1..Len(passed) |-> passed[i].call]

FloorOverSqrt(n, s) ==
  IF s = 0 THEN PlusInfinity
  ELSE Number(CHOOSE k \in 0..n :
                /\ k * k * s <= n * n
                /\ (k + 1) * (k + 1) * s > n * n)

\* a < n for a loop variable a and a whole number n
LessThan(a, n) == a.kind = "number" /\ a.value < n

\* a += b
PlusNumber(a, b) ==
  IF a.kind = "number" /\ b.kind = "number" THEN Number(a.value + b.value)
  ELSE PlusInfinity

\* (data[0] + data[1] + data[2]) / 3 of a pixel of the raster
PixelAverage(pixels) == IF pixels = "zero" THEN 0 ELSE 255

\* the canvases: every pair of these sides
CanvasSides == {1, 2, 40, 50, MaxCanvasSide}

\* thresholds: the default 10, a small one and one above every average
Thresholds == {1, 10, 300}

\* the calls of isCanvasMostlyBlack(canvas, threshold) on a canvas with a 2d
\* context whose raster is all zero or all white
BlackCalls ==
  {[BlackIdle EXCEPT !.pc = "called", !.width = w, !.height = h,
                     !.pixels = p, !.threshold = t] :
     w \in CanvasSides, h \in CanvasSides, p \in {"zero", "white"},
     t \in Thresholds}

BlackInit ==
  /\ RestIdle
  /\ sched = SchedIdle
  /\ timeoutCall = TimeoutIdle
  /\ em = EmIdle
  /\ control = ControlIdle
  /\ video = VideoIdle
  /\ blackCall \in BlackCalls

\* isCanvasMostlyBlack up to the first test of the outer loop
BlackEnter ==
  /\ blackCall.pc = "called"
  /\ LET sampleSize ==
           Min(100, (blackCall.width * blackCall.height) \div 1000)
     IN  blackCall' = [blackCall EXCEPT
           !.pc = "loop",
           !.sampleWidth =
              FloorOverSqrt(blackCall.width, sampleSize),
           !.sampleHeight =
              FloorOverSqrt(blackCall.height, sampleSize),
           !.x = Number(0), !.y = Number(0), !.total = 0, !.count = 0]
  /\ UNCHANGED <<uploadVars, genVars, sched, timeoutCall, em, control, video>>

\* one pass of the inner loop: a pixel is read, total and count grow,
\* x += sampleWidth
BlackSample ==
  /\ blackCall.pc = "loop"
  /\ LessThan(blackCall.y, blackCall.height)
  /\ LessThan(blackCall.x, blackCall.width)
  /\ blackCall' = [blackCall EXCEPT
       !.total = IF blackCall.count < MaxSampleCount
                 THEN @ + PixelAverage(blackCall.pixels) ELSE @,
       !.count = IF @ < MaxSampleCount THEN @ + 1 ELSE @,
       !.x = PlusNumber(@, blackCall.sampleWidth)]
  /\ UNCHANGED <<uploadVars, genVars, sched, timeoutCall, em, control, video>>

\* the inner loop is over: y += sampleHeight, and x = 0 for the next row
BlackNextRow ==
  /\ blackCall.pc = "loop"
  /\ LessThan(blackCall.y, blackCall.height)
  /\ ~LessThan(blackCall.x, blackCall.width)
  /\ blackCall' = [blackCall EXCEPT
       !.y = PlusNumber(@, blackCall.sampleHeight), !.x = Number(0)]
  /\ UNCHANGED <<uploadVars, genVars, sched, timeoutCall, em, control, video>>

\* return total / count < threshold (0 / 0 is NaN, below nothing)
BlackReturn ==
  /\ blackCall.pc = "loop"
  /\ ~LessThan(blackCall.y, blackCall.height)
  /\ blackCall' = [blackCall EXCEPT
       !.pc = "returned",
       !.value = /\ blackCall.count > 0
                 /\ blackCall.total < blackCall.threshold * blackCall.count]
  /\ UNCHANGED <<uploadVars, genVars, sched, timeoutCall, em, control, video>>

BlackNext ==
  \/ BlackEnter
  \/ BlackSample
  \/ BlackNextRow
  \/ BlackReturn

BlackSpec == BlackInit /\ [][BlackNext]_vars

\* the function runs on: it is synchronous code
BlackLiveSpec == BlackSpec /\ WF_vars(BlackNext)

BlackReturned(value) ==
  blackCall.pc = "returned" /\ blackCall.value = value

\* C35: isCanvasMostlyBlack returns true for a raster whose pixels are all
\* zero, for every threshold > 0 and every canvas size; it returns false for
\* a raster whose pixels are all white (with the default threshold)
C35_BlackRasterTrueWhiteRasterFalse ==
  /\ (blackCall.pc = "called" /\ blackCall.pixels = "zero")
       ~> BlackReturned(TRUE)
  /\ (/\ blackCall.pc = "called"
      /\ blackCall.pixels = "white"
      /\ blackCall.threshold = 10)
       ~> BlackReturned(FALSE)

\* C37: for every canvas with width >= 1 and height >= 1 the sampling strides
\* sampleWidth and sampleHeight are at least 1, at least one pixel is
\* sampled and the call returns
C37_StridesPositiveAndTerminates ==
  /\ [](blackCall.pc = "loop" =>
          /\ ~LessThan(blackCall.sampleWidth, 1)
          /\ ~LessThan(blackCall.sampleHeight, 1))
  /\ [](blackCall.pc = "returned" => blackCall.count >= 1)
  /\ (blackCall.pc = "called") ~> (blackCall.pc = "returned")

\* ------------------------------------- generateThumbnailsWithVideo, by task
\* One run of the native strategy on a video element, a task of the event
\* loop at a time. Seeks are numbered: 0 is the priming seek, f >= 1 the seek
\* of the f-th scheduled timestamp. Setting video.currentTime starts a seek
\* and ends the one in progress; the decoder completing a seek queues its
\* seeked event, which is delivered later to the listener registered then.
\*   listener  the seeked listener registered on the element: -1 none,
\*             0 the priming one, f the onSeeked of the capture of frame f
\*   timers    the captures whose 2-second timer is armed
\*   seeking   the seek in progress, -1 for none
\*   queued    the seeks whose seeked event is queued
\*   encoding  the captures with a toBlob callback pending
\*   raster    the drawImage calls: frame, what triggered it, and the seek
\*             whose event it answers
\*   settled   the resolve and reject calls of the captureFrameAtTime promises
\*   batch     the timestamps of the thumbnails pushed; everyBlack: all of
\*             them have isBlack

\* calls of resolve or reject (or rasterizations) recorded for frame f
CountOf(log, f) == Cardinality({i \in DOMAIN log : log[i].frame = f})

\* if (thumbnails.every((thumb) => thumb.isBlack)) throw ...; return
VideoFinish(v) ==
  [v EXCEPT !.pc = IF v.everyBlack THEN "threw" ELSE "returned"]

\* captureFrameAtTime(video, time): addEventListener, setTimeout,
\* video.currentTime = time
StartCapture(v, f) ==
  [v EXCEPT !.k = f, !.pc = "capturing", !.listener = f,
            !.timers = @ \cup {f}, !.seeking = f]

\* the frame loop after the iteration of frame v.k
NextIteration(v) ==
  IF v.k < v.n THEN StartCapture(v, v.k + 1) ELSE VideoFinish(v)

\* resolve or reject of the promise of frame f: the first call settles it and
\* the loop goes on (to arrayBuffer, or through the catch to the next frame)
SettleCapture(v, f, how) ==
  LET w == [v EXCEPT !.settled = Append(@, [frame |-> f])]
  IN  IF CountOf(v.settled, f) > 0 THEN w
      ELSE IF how = "resolved" THEN [w EXCEPT !.pc = "buffering"]
      ELSE NextIteration(w)

\* captureFrame(): without a context, or when drawImage throws, it rejects;
\* else the frame is drawn and toBlob is pending
CaptureFrame(v, f, trigger, seek, drawn) ==
  IF drawn
  THEN [v EXCEPT !.raster = Append(@, [frame |-> f, trigger |-> trigger,
                                        seek |-> seek]),
                 !.encoding = @ \cup {f}]
  ELSE SettleCapture(v, f, "rejected")

\* onSeeked leaves its timer armed
OnSeekedLeavesTimer(timers, f) == timers

\* if (timeoutId) clearTimeout(timeoutId)
OnSeekedClearsTimeout(timers, f) == timers \ {f}

VideoInit ==
  /\ RestIdle
  /\ sched = SchedIdle
  /\ timeoutCall = TimeoutIdle
  /\ em = EmIdle
  /\ control = ControlIdle
  /\ blackCall = BlackIdle
  /\ video = [VideoIdle EXCEPT !.pc = "begin"]

\* up to the priming seek: the duration or the element's load may fail (the
\* run throws); play() failures are ignored; with timestamps scheduled the
\* priming listener is registered and the priming seek issued
VideoBegin ==
  /\ video.pc = "begin"
  /\ \E failed \in BOOLEAN, n \in 0..MaxVideoFrames :
       video' =
         IF failed THEN [video EXCEPT !.pc = "threw"]
         ELSE IF n = 0 THEN VideoFinish([video EXCEPT !.n = 0])
         ELSE [video EXCEPT !.pc = "priming", !.n = n, !.listener = 0,
                            !.seeking = 0]
  /\ UNCHANGED <<uploadVars, genVars, sched, timeoutCall, em, control,
                 blackCall>>

\* the decoder completes the seek in progress: its seeked event is queued
SeekCompletes ==
  /\ video.seeking >= 0
  /\ video' = [video EXCEPT !.queued = @ \cup {video.seeking},
                            !.seeking = -1]
  /\ UNCHANGED <<uploadVars, genVars, sched, timeoutCall, em, control,
                 blackCall>>

\* a queued seeked event is delivered: to nobody, to the priming listener
\* (the loop starts), or to the onSeeked of the capture awaited
SeekedDelivered ==
  /\ \E s \in video.queued, drawn \in BOOLEAN :
       LET v == [video EXCEPT !.queued = @ \ {s}]
           f == video.listener
       IN  video' =
             IF f = -1 THEN v
             ELSE IF f = 0 THEN StartCapture([v EXCEPT !.listener = -1], 1)
             ELSE CaptureFrame(
                    [v EXCEPT !.timers = OnSeekedClearsTimeout(@, f),
                              !.listener = -1],
                    f, "seeked", s, drawn)
  /\ UNCHANGED <<uploadVars, genVars, sched, timeoutCall, em, control,
                 blackCall>>

\* the 2-second timer of a capture fires: removeEventListener, then
\* captureFrame() if video.readyState >= 2, else reject
CaptureTimeout ==
  /\ \E f \in video.timers, ready \in BOOLEAN, drawn \in BOOLEAN :
       LET v == [video EXCEPT !.timers = @ \ {f},
                              !.listener = IF @ = f THEN -1 ELSE @]
       IN  video' =
             IF ready THEN CaptureFrame(v, f, "timeout", f, drawn)
             ELSE SettleCapture(v, f, "rejected")
  /\ UNCHANGED <<uploadVars, genVars, sched, timeoutCall, em, control,
                 blackCall>>

\* the toBlob callback: resolve with the blob, or reject when blob is null;
\* resolved, the loop runs isCanvasMostlyBlack and awaits arrayBuffer()
ToBlobCallback ==
  /\ \E f \in video.encoding, blob \in BOOLEAN :
       video' = SettleCapture([video EXCEPT !.encoding = @ \ {f}], f,
                              IF blob THEN "resolved" ELSE "rejected")
  /\ UNCHANGED <<uploadVars, genVars, sched, timeoutCall, em, control,
                 blackCall>>

\* result.blob.arrayBuffer() settles: the thumbnail is pushed, or the catch
\* warns; then the next timestamp
ArrayBufferSettles ==
  /\ video.pc = "buffering"
  /\ \E read \in BOOLEAN, isBlack \in BOOLEAN :
       video' = NextIteration(
                  IF read
                  THEN [video EXCEPT !.batch = Append(@, video.k),
                                     !.everyBlack = @ /\ isBlack]
                  ELSE video)
  /\ UNCHANGED <<uploadVars, genVars, sched, timeoutCall, em, control,
                 blackCall>>

VideoNext ==
  \/ VideoBegin
  \/ SeekCompletes
  \/ SeekedDelivered
  \/ CaptureTimeout
  \/ ToBlobCallback
  \/ ArrayBufferSettles

VideoSpec == VideoInit /\ [][VideoNext]_vars

\* timers fire, queued events and callbacks are delivered, promises of the
\* platform settle; nothing makes the decoder complete a seek
VideoLiveSpec ==
  /\ VideoSpec
  /\ WF_vars(VideoBegin)
  /\ WF_vars(SeekedDelivered)
  /\ WF_vars(CaptureTimeout)
  /\ WF_vars(ToBlobCallback)
  /\ WF_vars(ArrayBufferSettles)

VideoEnded == video.pc \in {"returned", "threw"}

\* C32: a priming seek whose completion the decoder never signals does not
\* stop generateThumbnailsWithVideo: with timers firing, the run goes on and
\* eventually returns or throws
C32_PrimingSeekNeverBlocks == (video.pc = "priming") ~> VideoEnded

\* the step is the onSeeked of the capture of frame f
OnSeekedOf(f) ==
  /\ video.listener = f
  /\ video'.queued # video.queued
  /\ video'.queued \subseteq video.queued

\* the step is the timeout of the capture of frame f
TimeoutOf(f) ==
  /\ f \in video.timers
  /\ f \notin video'.timers
  /\ video'.queued = video.queued

\* C33: for each captureFrameAtTime call, however the seeked event and the
\* 2-second timer interleave, the frame is drawn at most once and the promise
\* is settled exactly once; onSeeked draws and disarms the timer; the timeout
\* removes the listener and draws or rejects
C33_CaptureOnceAndSettleOnce ==
  /\ [](\A f \in 1..MaxVideoFrames :
          /\ CountOf(video.raster, f) <= 1
          /\ CountOf(video.settled, f) <= 1)
  /\ \A f \in 1..MaxVideoFrames :
       (video.k = f) ~> (CountOf(video.settled, f) = 1)
  /\ [][\A f \in 1..MaxVideoFrames :
          /\ OnSeekedOf(f) =>
               /\ f \notin video'.timers
               /\ \/ CountOf(video'.raster, f) = CountOf(video.raster, f) + 1
                  \/ CountOf(video'.settled, f) = CountOf(video.settled, f) + 1
          /\ TimeoutOf(f) =>
               /\ video'.listener # f
               /\ \/ CountOf(video'.raster, f) = CountOf(video.raster, f) + 1
                  \/ CountOf(video'.settled, f) = CountOf(video.settled, f) + 1
     ]_vars

\* one capture was drawn on its seeked event, a later one on its timeout, a
\* third was rejected by its timeout, and each has settled
C33_Witness ==
  /\ \E i \in DOMAIN video.raster : video.raster[i].trigger = "seeked"
  /\ \E i \in DOMAIN video.raster : video.raster[i].trigger = "timeout"
  /\ \E f \in 1..video.k :
       /\ CountOf(video.raster, f) = 0
       /\ CountOf(video.settled, f) = 1
  /\ VideoEnded
  /\ \A f \in 1..video.n : CountOf(video.settled, f) = 1

\* C40: a frame is drawn only in answer to the seek issued for its own
\* timestamp (that seek's seeked event, or the capture's own timeout), never
\* on the seeked event of an earlier seek
C40_FrameAnswersItsOwnSeek ==
  \A i \in DOMAIN video.raster : video.raster[i].seek = video.raster[i].frame

====
